---- MODULE Spec2Model ----
(***************************************************************************)
(* Model of the MicroRaiden client (src/src/lib/uraiden.ts): the tracked   *)
(* channel, its localStorage record, the channel-manager contract as seen  *)
(* through events and getChannelInfo, and the client operations.  Every    *)
(* operation is one action: the await points of a single call are taken    *)
(* without interleaving (sequential use of one client).                    *)
(*                                                                         *)
(* Assumptions: localStorage is available (a browser); addresses are       *)
(* abstract values; callers pass balances, amounts and deposits >= 0; the  *)
(* contract is the uRaiden channel manager, seen through the calls the     *)
(* client makes.  `last` records the call that has just returned, with     *)
(* the channel and the store before it, so that a property of one call is  *)
(* a property of a state.                                                  *)
(***************************************************************************)
EXTENDS Integers, Sequences, FiniteSets, TLC

\* ---------------------------------------------------------------- bounds
MaxBlock == 5          \* the chain is explored up to this block number
MaxBal == 2            \* largest balance / amount a caller passes
MaxDeposit == 1        \* largest deposit a caller passes
MaxTokens == 2         \* token balance of the sender at the start
MaxChannels == 2       \* channels the contract creates for the pair
ChallengePeriod == 1   \* challenge_period() configured in the contract
LongChallenge == 3     \* a longer one, for the scan of the chain
MaxCalls == 2          \* incrementBalanceAndSign calls in flight at once
MaxStoredBal == 17     \* largest balance of a channel written to the store
MaxConfirmations == 2  \* largest number of confirmations waitTx is asked for
MaxPolls == 4          \* polls one waitTx call is followed for

\* ------------------------------------------------------------- addresses
Sender == "alice"
Receiver == "bob"
Mallory == "mallory"
ContractAddr == "cm"
OtherContract == "cm2"
Signers == {Sender, Mallory}

\* ------------------------------------------------------------ data model
\* A signature is modelled by what it was computed over and by whom.
NoSig == [signer |-> "", receiver |-> "", block |-> 0, balance |-> 0, contract |-> ""]

SigOver(signer, receiver, block, balance, contract) ==
  [signer |-> signer, receiver |-> receiver, block |-> block,
   balance |-> balance, contract |-> contract]

\* MicroProof; NoProof stands for an absent (undefined) proof
NoProof == [balance |-> -1, sig |-> NoSig]

Proof(balance, sig) == [balance |-> balance, sig |-> sig]

\* MicroChannel; closing_sig NoSig is an absent cooperative signature
MicroChannel(account, receiver, block, proof, next_proof, closing_sig) ==
  [account |-> account, receiver |-> receiver, block |-> block,
   proof |-> proof, next_proof |-> next_proof, closing_sig |-> closing_sig]

\* this.channel after `delete this.channel`
NoChannel == MicroChannel("undefined", "undefined", 0, NoProof, NoProof, NoSig)

\* this.channel as the constructor leaves it
InitialChannel == MicroChannel("", "", 0, Proof(0, NoSig), NoProof, NoSig)

isChannelValid(ch) ==
  /\ ch # NoChannel
  /\ ch.receiver # ""
  /\ ch.block # 0
  /\ ch.proof # NoProof
  /\ ch.account # ""

\* The canonical tuple of typed fields a balance proof is signed over
getBalanceProofSignatureParams(ch, proof) ==
  [receiver |-> ch.receiver, block |-> ch.block,
   balance |-> proof.balance, contract |-> ContractAddr]

\* recoverTypedSignature: the signer when the signature was made over exactly
\* these params, otherwise an address that belongs to nobody
recoverTypedSignature(params, sig) ==
  IF /\ sig.receiver = params.receiver
     /\ sig.block = params.block
     /\ sig.balance = params.balance
     /\ sig.contract = params.contract
  THEN sig.signer
  ELSE "0xnobody"

\* ------------------------------------------------------- the store format
\* BN.toJSON: the balance as hexadecimal digits, most significant first
RECURSIVE ToHex(_)
ToHex(n) == IF n < 16 THEN <<n>> ELSE Append(ToHex(n \div 16), n % 16)

\* new BigNumber(string): the digits read in base 10
RECURSIVE ParseBase10(_)
ParseBase10(ds) ==
  IF Len(ds) = 0 THEN 0
  ELSE 10 * ParseBase10(SubSeq(ds, 1, Len(ds) - 1)) + ds[Len(ds)]

NoJsonProof == [balance |-> <<>>, sig |-> NoSig]

JsonProof(p) == IF p = NoProof THEN NoJsonProof
                ELSE [balance |-> ToHex(p.balance), sig |-> p.sig]

ParseProof(j) == IF j = NoJsonProof THEN NoProof
                 ELSE [balance |-> ParseBase10(j.balance), sig |-> j.sig]

\* JSON.stringify(this.channel)
Stringify(ch) ==
  [account |-> ch.account, receiver |-> ch.receiver, block |-> ch.block,
   proof |-> JsonProof(ch.proof), next_proof |-> JsonProof(ch.next_proof),
   closing_sig |-> ch.closing_sig]

\* localStorage.getItem on a key never written
NoItem == [account |-> "null", receiver |-> "null", block |-> 0,
           proof |-> NoJsonProof, next_proof |-> NoJsonProof, closing_sig |-> NoSig]

StorageKey(account, receiver) == <<account, receiver>>

StorageKeys == {StorageKey(Sender, Receiver)}

\* setChannel's write to localStorage
setItem(st, ch) ==
  [k \in DOMAIN st |->
     IF k = StorageKey(ch.account, ch.receiver) THEN Stringify(ch) ELSE st[k]]

\* localStorage.removeItem
removeItem(st, key) ==
  [k \in DOMAIN st |-> IF k = key THEN NoItem ELSE st[k]]

\* --------------------------------------------------- the channel manager
\* What the contract and its event log hold for the channel of
\* (Sender, Receiver) opened in a block: `closed` / `settled` are the blocks
\* of its ChannelCloseRequested / ChannelSettled events, 0 when there is none.
NoChainChannel ==
  [created |-> FALSE, deposit |-> 0, withdrawn |-> 0, closed |-> 0, settled |-> 0]

Blocks == 1..MaxBlock

OnChain(chn, account, receiver, block) ==
  IF account = Sender /\ receiver = Receiver /\ block \in Blocks
  THEN chn[block]
  ELSE NoChainChannel

\* MicroChannelInfo, or the error getChannelInfo throws
ChannelInfo(err, state, block, deposit, withdrawn) ==
  [err |-> err, state |-> state, block |-> block,
   deposit |-> deposit, withdrawn |-> withdrawn]

\* getChannelInfo looking at the close request before the settlement
getChannelInfo_ClosedFirst(ch, chn) ==
  IF ~isChannelValid(ch) THEN ChannelInfo("InvalidChannel", "", 0, 0, 0)
  ELSE
    LET c == OnChain(chn, ch.account, ch.receiver, ch.block)
        closed == c.closed
        settled == c.settled
    IN IF closed # 0
       THEN ChannelInfo("", "closed", closed, c.deposit, c.withdrawn)
       ELSE IF settled # 0
       THEN ChannelInfo("", "settled", settled, 0, 0)
       ELSE IF ~(c.deposit > 0)
       THEN ChannelInfo("InvalidChannel", "", 0, 0, 0)
       ELSE ChannelInfo("", "opened", ch.block, c.deposit, c.withdrawn)

getChannelInfo(ch, chn) ==
  IF ~isChannelValid(ch) THEN ChannelInfo("InvalidChannel", "", 0, 0, 0)
  ELSE
    LET c == OnChain(chn, ch.account, ch.receiver, ch.block)
        closed == c.closed
        settled == c.settled
    IN IF settled # 0
       THEN ChannelInfo("", "settled", settled, 0, 0)
       ELSE IF ~(c.deposit > 0)
       THEN ChannelInfo("InvalidChannel", "", 0, 0, 0)
       ELSE ChannelInfo("",
                        IF closed # 0 THEN "closed" ELSE "opened",
                        IF closed # 0 THEN closed ELSE ch.block,
                        c.deposit, c.withdrawn)

\* ----------------------------------------------------------- operations
\* What one call leaves behind: its outcome (`ret`: "ok"/"true"/"false" or the
\* error raised), the proof it returns, the tracked channel, the store, the
\* number of signing requests sent to the provider, and the fields of a
\* FundError.
Result(ret, out, ch, st, reqs, current, required) ==
  [ret |-> ret, out |-> out, channel |-> ch, store |-> st, reqs |-> reqs,
   current |-> current, required |-> required]

Fail(err, ch, st) == Result(err, NoProof, ch, st, 0, 0, 0)

\* setChannel tracking the channel without writing it to localStorage
setChannel_MemoryOnly(ret, out, ch, st, reqs) ==
  Result(ret, out, ch, st, reqs, 0, 0)

\* setChannel: track the channel and write it to localStorage
setChannel(ret, out, ch, st, reqs) ==
  Result(ret, out, ch, setItem(st, ch), reqs, 0, 0)

\* setBalance that leaves next_proof in place
setBalance_KeepsPending(ch, st, value) ==
  IF ch = NoChannel THEN Fail("TypeError", ch, st)
  ELSE IF ch.proof.balance = value THEN Result("ok", NoProof, ch, st, 0, 0, 0)
  ELSE setChannel("ok", NoProof, [ch EXCEPT !.proof = Proof(value, NoSig)], st, 0)

\* setBalance building the channel anew from the balance alone
setBalance_DropsIdentity(ch, st, value) ==
  IF ch = NoChannel THEN Fail("TypeError", ch, st)
  ELSE IF ch.proof.balance = value THEN Result("ok", NoProof, ch, st, 0, 0, 0)
  ELSE setChannel("ok", NoProof,
                  MicroChannel(ch.account, ch.receiver, 0,
                               Proof(value, NoSig), NoProof, ch.closing_sig),
                  st, 0)

setBalance(ch, st, value) ==
  IF ch = NoChannel THEN Fail("TypeError", ch, st)
  ELSE IF ch.proof.balance = value THEN Result("ok", NoProof, ch, st, 0, 0, 0)
  ELSE setChannel("ok", NoProof,
                  [ch EXCEPT !.proof = Proof(value, NoSig), !.next_proof = NoProof],
                  st, 0)

\* confirmPayment without the comparison of signatures
confirmPayment_AnySignature(ch, st, proof) ==
  IF ch = NoChannel THEN Fail("TypeError", ch, st)
  ELSE IF ch.next_proof = NoProof \/ ch.next_proof.sig = NoSig
  THEN Fail("InvalidPendingProof", ch, st)
  ELSE setChannel("ok", NoProof,
                  [ch EXCEPT !.proof = ch.next_proof, !.next_proof = NoProof],
                  st, 0)

\* confirmPayment that leaves next_proof in place
confirmPayment_KeepsPending(ch, st, proof) ==
  IF ch = NoChannel THEN Fail("TypeError", ch, st)
  ELSE IF \/ ch.next_proof = NoProof
          \/ ch.next_proof.sig = NoSig
          \/ ch.next_proof.sig # proof.sig
  THEN Fail("InvalidPendingProof", ch, st)
  ELSE setChannel("ok", NoProof, [ch EXCEPT !.proof = ch.next_proof], st, 0)

confirmPayment(ch, st, proof) ==
  IF ch = NoChannel THEN Fail("TypeError", ch, st)
  ELSE IF \/ ch.next_proof = NoProof
          \/ ch.next_proof.sig = NoSig
          \/ ch.next_proof.sig # proof.sig
  THEN Fail("InvalidPendingProof", ch, st)
  ELSE setChannel("ok", NoProof,
                  [ch EXCEPT !.proof = ch.next_proof, !.next_proof = NoProof],
                  st, 0)

\* verifyProof that leaves next_proof in place
verifyProof_KeepsPending(ch, st, proof) ==
  IF proof.sig = NoSig THEN Fail("MissingSignature", ch, st)
  ELSE IF ch = NoChannel THEN Fail("TypeError", ch, st)
  ELSE IF recoverTypedSignature(getBalanceProofSignatureParams(ch, proof), proof.sig)
            # ch.account
  THEN Fail("false", ch, st)
  ELSE setChannel("true", NoProof, [ch EXCEPT !.proof = proof], st, 0)

\* verifyProof that clears next_proof before it has checked the signer
verifyProof_ClearsFirst(ch, st, proof) ==
  IF proof.sig = NoSig THEN Fail("MissingSignature", ch, st)
  ELSE IF ch = NoChannel THEN Fail("TypeError", ch, st)
  ELSE IF recoverTypedSignature(getBalanceProofSignatureParams(ch, proof), proof.sig)
            # ch.account
  THEN Fail("false", [ch EXCEPT !.next_proof = NoProof], st)
  ELSE setChannel("true", NoProof,
                  [ch EXCEPT !.proof = proof, !.next_proof = NoProof],
                  st, 0)

\* verifyProof checking the signature against the open block the signature
\* itself names
verifyProof_TrustsSigBlock(ch, st, proof) ==
  IF proof.sig = NoSig THEN Fail("MissingSignature", ch, st)
  ELSE IF ch = NoChannel THEN Fail("TypeError", ch, st)
  ELSE IF recoverTypedSignature(
            [getBalanceProofSignatureParams(ch, proof) EXCEPT !.block = proof.sig.block],
            proof.sig) # ch.account
  THEN Fail("false", ch, st)
  ELSE setChannel("true", NoProof,
                  [ch EXCEPT !.proof = proof, !.next_proof = NoProof],
                  st, 0)

verifyProof(ch, st, proof) ==
  IF proof.sig = NoSig THEN Fail("MissingSignature", ch, st)
  ELSE IF ch = NoChannel THEN Fail("TypeError", ch, st)
  ELSE IF recoverTypedSignature(getBalanceProofSignatureParams(ch, proof), proof.sig)
            # ch.account
  THEN Fail("false", ch, st)
  ELSE setChannel("true", NoProof,
                  [ch EXCEPT !.proof = proof, !.next_proof = NoProof],
                  st, 0)

\* How the provider answers signNewProof's signing requests.
\*   sync     eth_signTypedData calls back before send() returns
\*   async    the callback runs after signNewProof has gone on: sig is still ''
\*   denied   send() throws 'User denied'
\*   personal send() throws otherwise; personal.sign of the hash answers
\*   ethsign  personal.sign is not supported; eth.sign of the hash answers
\*   failed   the fallback request fails too
Answering == {"sync", "personal", "ethsign"}
Silent == {"async", "denied", "failed"}

\* The signatures a provider may hand back for a request over `params`: the
\* sender's or someone else's over these params, or the sender's over others
ProviderAnswers(params) ==
  { SigOver(Sender, params.receiver, params.block, params.balance, params.contract),
    SigOver(Mallory, params.receiver, params.block, params.balance, params.contract),
    SigOver(Sender, params.receiver, params.block, params.balance + 1, params.contract) }

\* The provider's behaviour during one call: how it answers, and with what
ProviderReplies(params) ==
  { [outcome |-> o, answer |-> a] : o \in Answering, a \in ProviderAnswers(params) }
    \cup { [outcome |-> o, answer |-> NoSig] : o \in Silent }

\* No provider was asked
NoReply == [outcome |-> "", answer |-> NoSig]

SigningRequests(outcome) ==
  CASE outcome \in {"sync", "async", "denied"} -> 1
    [] outcome \in {"personal", "failed"} -> 2
    [] OTHER -> 3

\* signNewProof taking whatever signature the provider hands back
signNewProof_TrustsProvider(ch, st, proofArg, outcome, answer) ==
  IF ~isChannelValid(ch) THEN Fail("InvalidChannel", ch, st)
  ELSE
    LET proof == IF proofArg = NoProof THEN ch.proof ELSE proofArg
        reqs == SigningRequests(outcome)
        sig == IF outcome \in Answering THEN answer ELSE NoSig
        signed == Proof(proof.balance, sig)
    IN IF proof.sig # NoSig THEN Result("ok", proof, ch, st, 0, 0, 0)
       ELSE IF outcome = "denied"
       THEN Result("UserRejectedSigning", NoProof, ch, st, reqs, 0, 0)
       ELSE IF outcome = "failed"
       THEN Result("SigningFailed", NoProof, ch, st, reqs, 0, 0)
       ELSE IF sig = NoSig
       THEN Result("InvalidSignature", NoProof, ch, st, reqs, 0, 0)
       ELSE IF proof.balance = ch.proof.balance
       THEN setChannel("ok", signed,
                       [ch EXCEPT !.proof = signed, !.next_proof = signed], st, reqs)
       ELSE setChannel("ok", signed, [ch EXCEPT !.next_proof = signed], st, reqs)

\* signNewProof storing a proof of the confirmed balance as next_proof only
signNewProof_AlwaysPending(ch, st, proofArg, outcome, answer) ==
  IF ~isChannelValid(ch) THEN Fail("InvalidChannel", ch, st)
  ELSE
    LET proof == IF proofArg = NoProof THEN ch.proof ELSE proofArg
        params == getBalanceProofSignatureParams(ch, proof)
        reqs == SigningRequests(outcome)
        sig == IF outcome \in Answering THEN answer ELSE NoSig
        signed == Proof(proof.balance, sig)
    IN IF proof.sig # NoSig THEN Result("ok", proof, ch, st, 0, 0, 0)
       ELSE IF outcome = "denied"
       THEN Result("UserRejectedSigning", NoProof, ch, st, reqs, 0, 0)
       ELSE IF outcome = "failed"
       THEN Result("SigningFailed", NoProof, ch, st, reqs, 0, 0)
       ELSE IF sig = NoSig
       THEN Result("InvalidSignature", NoProof, ch, st, reqs, 0, 0)
       ELSE IF recoverTypedSignature(params, sig) # ch.account
       THEN Result("SignatureMismatch", NoProof, ch, st, reqs, 0, 0)
       ELSE setChannel("ok", signed, [ch EXCEPT !.next_proof = signed], st, reqs)

\* signNewProof without the early return for a proof that is signed already
signNewProof_SignsAgain(ch, st, proofArg, outcome, answer) ==
  IF ~isChannelValid(ch) THEN Fail("InvalidChannel", ch, st)
  ELSE
    LET proof == IF proofArg = NoProof THEN ch.proof ELSE proofArg
        params == getBalanceProofSignatureParams(ch, proof)
        reqs == SigningRequests(outcome)
        sig == IF outcome \in Answering THEN answer ELSE NoSig
        signed == Proof(proof.balance, sig)
    IN IF outcome = "denied"
       THEN Result("UserRejectedSigning", NoProof, ch, st, reqs, 0, 0)
       ELSE IF outcome = "failed"
       THEN Result("SigningFailed", NoProof, ch, st, reqs, 0, 0)
       ELSE IF sig = NoSig
       THEN Result("InvalidSignature", NoProof, ch, st, reqs, 0, 0)
       ELSE IF recoverTypedSignature(params, sig) # ch.account
       THEN Result("SignatureMismatch", NoProof, ch, st, reqs, 0, 0)
       ELSE IF proof.balance = ch.proof.balance
       THEN setChannel("ok", signed,
                       [ch EXCEPT !.proof = signed, !.next_proof = signed], st, reqs)
       ELSE setChannel("ok", signed, [ch EXCEPT !.next_proof = signed], st, reqs)

\* signNewProof that stores the signed proof as proof whatever its balance
signNewProof_StoresAsProof(ch, st, proofArg, outcome, answer) ==
  IF ~isChannelValid(ch) THEN Fail("InvalidChannel", ch, st)
  ELSE
    LET proof == IF proofArg = NoProof THEN ch.proof ELSE proofArg
        params == getBalanceProofSignatureParams(ch, proof)
        reqs == SigningRequests(outcome)
        sig == IF outcome \in Answering THEN answer ELSE NoSig
        signed == Proof(proof.balance, sig)
    IN IF proof.sig # NoSig THEN Result("ok", proof, ch, st, 0, 0, 0)
       ELSE IF outcome = "denied"
       THEN Result("UserRejectedSigning", NoProof, ch, st, reqs, 0, 0)
       ELSE IF outcome = "failed"
       THEN Result("SigningFailed", NoProof, ch, st, reqs, 0, 0)
       ELSE IF sig = NoSig
       THEN Result("InvalidSignature", NoProof, ch, st, reqs, 0, 0)
       ELSE IF recoverTypedSignature(params, sig) # ch.account
       THEN Result("SignatureMismatch", NoProof, ch, st, reqs, 0, 0)
       ELSE setChannel("ok", signed,
                       [ch EXCEPT !.proof = signed, !.next_proof = signed], st, reqs)

signNewProof(ch, st, proofArg, outcome, answer) ==
  IF ~isChannelValid(ch) THEN Fail("InvalidChannel", ch, st)
  ELSE
    LET proof == IF proofArg = NoProof THEN ch.proof ELSE proofArg
        params == getBalanceProofSignatureParams(ch, proof)
        reqs == SigningRequests(outcome)
        sig == IF outcome \in Answering THEN answer ELSE NoSig
        signed == Proof(proof.balance, sig)
    IN IF proof.sig # NoSig THEN Result("ok", proof, ch, st, 0, 0, 0)
       ELSE IF outcome = "denied"
       THEN Result("UserRejectedSigning", NoProof, ch, st, reqs, 0, 0)
       ELSE IF outcome = "failed"
       THEN Result("SigningFailed", NoProof, ch, st, reqs, 0, 0)
       ELSE IF sig = NoSig
       THEN Result("InvalidSignature", NoProof, ch, st, reqs, 0, 0)
       ELSE IF recoverTypedSignature(params, sig) # ch.account
       THEN Result("SignatureMismatch", NoProof, ch, st, reqs, 0, 0)
       ELSE IF proof.balance = ch.proof.balance
       THEN setChannel("ok", signed,
                       [ch EXCEPT !.proof = signed, !.next_proof = signed], st, reqs)
       ELSE setChannel("ok", signed, [ch EXCEPT !.next_proof = signed], st, reqs)

\* incrementBalanceAndSign comparing the increment, not the new balance,
\* with the deposit
incrementBalanceAndSign_ComparesAmount(ch, st, chn, amount, outcome, answer) ==
  IF ~isChannelValid(ch) THEN Fail("InvalidChannel", ch, st)
  ELSE
    LET proof == Proof(ch.proof.balance + amount, NoSig)
        info == getChannelInfo(ch, chn)
    IN IF info.err # "" THEN Fail(info.err, ch, st)
       ELSE IF info.state # "opened" THEN Fail("ChannelNotOpen", ch, st)
       ELSE IF amount > info.deposit
       THEN Result("InsufficientChannelFunds", NoProof, ch, st, 0,
                   info.deposit, proof.balance)
       ELSE signNewProof(ch, st, proof, outcome, answer)

\* incrementBalanceAndSign without the comparison with the deposit
incrementBalanceAndSign_NoFundsCheck(ch, st, chn, amount, outcome, answer) ==
  IF ~isChannelValid(ch) THEN Fail("InvalidChannel", ch, st)
  ELSE
    LET proof == Proof(ch.proof.balance + amount, NoSig)
        info == getChannelInfo(ch, chn)
    IN IF info.err # "" THEN Fail(info.err, ch, st)
       ELSE IF info.state # "opened" THEN Fail("ChannelNotOpen", ch, st)
       ELSE signNewProof(ch, st, proof, outcome, answer)

\* incrementBalanceAndSign not looking at the channel's state
incrementBalanceAndSign_NoStateCheck(ch, st, chn, amount, outcome, answer) ==
  IF ~isChannelValid(ch) THEN Fail("InvalidChannel", ch, st)
  ELSE
    LET proof == Proof(ch.proof.balance + amount, NoSig)
        info == getChannelInfo(ch, chn)
    IN IF info.err # "" THEN Fail(info.err, ch, st)
       ELSE IF proof.balance > info.deposit
       THEN Result("InsufficientChannelFunds", NoProof, ch, st, 0,
                   info.deposit, proof.balance)
       ELSE signNewProof(ch, st, proof, outcome, answer)

incrementBalanceAndSign(ch, st, chn, amount, outcome, answer) ==
  IF ~isChannelValid(ch) THEN Fail("InvalidChannel", ch, st)
  ELSE
    LET proof == Proof(ch.proof.balance + amount, NoSig)
        info == getChannelInfo(ch, chn)
    IN IF info.err # "" THEN Fail(info.err, ch, st)
       ELSE IF info.state # "opened" THEN Fail("ChannelNotOpen", ch, st)
       ELSE IF proof.balance > info.deposit
       THEN Result("InsufficientChannelFunds", NoProof, ch, st, 0,
                   info.deposit, proof.balance)
       ELSE signNewProof(ch, st, proof, outcome, answer)

\* incrementBalanceAndSign, call by call.  The proof is built from the
\* channel read when the call begins; the call is then suspended at
\* `await this.getChannelInfo()`, and what follows runs when it resumes, on
\* the channel tracked by then.
Slots == 1..MaxCalls

Slot(pc, amount, began, ret, out) ==
  [pc |-> pc, amount |-> amount, began |-> began, ret |-> ret, out |-> out]

NoSlot == Slot("none", 0, NoChannel, "", NoProof)

\* The resumed call writing over the copy of the channel it began with
resumeIncrement_WritesCopy(ch, st, chn, began, amount, outcome, answer) ==
  LET proof == Proof(began.proof.balance + amount, NoSig)
      info == getChannelInfo(began, chn)
  IN IF info.err # "" THEN Fail(info.err, ch, st)
     ELSE IF info.state # "opened" THEN Fail("ChannelNotOpen", ch, st)
     ELSE IF proof.balance > info.deposit
     THEN Result("InsufficientChannelFunds", NoProof, ch, st, 0,
                 info.deposit, proof.balance)
     ELSE signNewProof(began, st, proof, outcome, answer)

resumeIncrement(ch, st, chn, began, amount, outcome, answer) ==
  LET proof == Proof(began.proof.balance + amount, NoSig)
      info == getChannelInfo(began, chn)
  IN IF info.err # "" THEN Fail(info.err, ch, st)
     ELSE IF info.state # "opened" THEN Fail("ChannelNotOpen", ch, st)
     ELSE IF proof.balance > info.deposit
     THEN Result("InsufficientChannelFunds", NoProof, ch, st, 0,
                 info.deposit, proof.balance)
     ELSE signNewProof(ch, st, proof, outcome, answer)

\* ------------------------------------------- transactions on the contract
\* The effect of a mined transaction on the contract; a reverted transaction
\* is mined too and leaves the contract as it was.
createChannel(chn, receiver, deposit, minedAt) ==
  IF receiver = Receiver /\ deposit > 0 /\ minedAt \in Blocks
  THEN [chn EXCEPT ![minedAt] = [created |-> TRUE, deposit |-> deposit,
                                 withdrawn |-> 0, closed |-> 0, settled |-> 0]]
  ELSE chn

topUp(chn, sender, receiver, block, deposit) ==
  LET c == OnChain(chn, sender, receiver, block)
  IN IF c.deposit > 0 /\ c.closed = 0 /\ deposit > 0
     THEN [chn EXCEPT ![block].deposit = c.deposit + deposit]
     ELSE chn

\* The receiver's signature a cooperative close needs
ClosingSigFor(sender, block, balance) ==
  SigOver(Receiver, sender, block, balance, ContractAddr)

cooperativeClose(chn, sender, receiver, block, balance, proofSig, closingSig, minedAt) ==
  LET c == OnChain(chn, sender, receiver, block)
      params == [receiver |-> receiver, block |-> block,
                 balance |-> balance, contract |-> ContractAddr]
  IN IF /\ c.deposit > 0
        /\ balance <= c.deposit
        /\ recoverTypedSignature(params, proofSig) = sender
        /\ closingSig = ClosingSigFor(sender, block, balance)
     THEN [chn EXCEPT ![block].settled = minedAt, ![block].deposit = 0]
     ELSE chn

\* uncooperativeClose settling the channel at once
uncooperativeClose_SettlesAtOnce(chn, sender, receiver, block, balance, minedAt) ==
  LET c == OnChain(chn, sender, receiver, block)
  IN IF c.deposit > 0 /\ c.closed = 0 /\ balance <= c.deposit
     THEN [chn EXCEPT ![block].settled = minedAt, ![block].deposit = 0]
     ELSE chn

uncooperativeClose(chn, sender, receiver, block, balance, minedAt) ==
  LET c == OnChain(chn, sender, receiver, block)
  IN IF c.deposit > 0 /\ c.closed = 0 /\ balance <= c.deposit
     THEN [chn EXCEPT ![block].closed = minedAt]
     ELSE chn

settle(chn, sender, receiver, block, minedAt, chal) ==
  LET c == OnChain(chn, sender, receiver, block)
  IN IF c.deposit > 0 /\ c.closed # 0 /\ minedAt > c.closed + chal
     THEN [chn EXCEPT ![block].settled = minedAt, ![block].deposit = 0]
     ELSE chn

\* --------------------------------------------- operations sending transactions
\* An operation that sends transactions also leaves a chain: the contract,
\* the block number reached when waitTx returns, the sender's tokens.
TxResult(res, chn, bn, tkn) ==
  [res |-> res, chain |-> chn, blockNumber |-> bn, tokens |-> tkn]

\* openChannel tracking the channel without looking at the deposit on chain
openChannel_SkipsDepositCheck(ch, st, chn, bn, tkn, account, receiver, deposit) ==
  IF ~(tkn >= deposit)
  THEN TxResult(Fail("InsufficientTokenBalance", ch, st), chn, bn, tkn)
  ELSE
    LET minedAt == bn + 1
        chn1 == createChannel(chn, receiver, deposit, minedAt)
        tkn1 == IF chn1 = chn THEN tkn ELSE tkn - deposit
    IN TxResult(
         setChannel("ok", NoProof,
                    MicroChannel(account, receiver, minedAt,
                                 Proof(0, NoSig), NoProof, NoSig),
                    st, 0),
         chn1, minedAt + 1, tkn1)

openChannel(ch, st, chn, bn, tkn, account, receiver, deposit) ==
  IF ~(tkn >= deposit)
  THEN TxResult(Fail("InsufficientTokenBalance", ch, st), chn, bn, tkn)
  ELSE
    LET minedAt == bn + 1
        chn1 == createChannel(chn, receiver, deposit, minedAt)
        tkn1 == IF chn1 = chn THEN tkn ELSE tkn - deposit
        info == OnChain(chn1, account, receiver, minedAt)
    IN IF ~(info.deposit > 0)
       THEN TxResult(Fail("DepositNotFound", ch, st), chn1, minedAt + 1, tkn1)
       ELSE TxResult(
              setChannel("ok", NoProof,
                         MicroChannel(account, receiver, minedAt,
                                      Proof(0, NoSig), NoProof, NoSig),
                         st, 0),
              chn1, minedAt + 1, tkn1)

topUpChannel(ch, st, chn, bn, tkn, deposit) ==
  IF ~isChannelValid(ch)
  THEN TxResult(Fail("InvalidChannel", ch, st), chn, bn, tkn)
  ELSE IF ~(tkn >= deposit)
  THEN TxResult(Fail("InsufficientTokenBalance", ch, st), chn, bn, tkn)
  ELSE
    LET chn1 == topUp(chn, ch.account, ch.receiver, ch.block, deposit)
        tkn1 == IF chn1 = chn THEN tkn ELSE tkn - deposit
    IN TxResult(Result("ok", NoProof, ch, st, 0, 0, 0), chn1, bn + 2, tkn1)

\* The counter-signature a close goes with: the stored one, else the given one
closingSigOf(ch, closingSigArg) ==
  IF ch.closing_sig # NoSig THEN ch.closing_sig ELSE closingSigArg

\* A given counter-signature is kept when none was stored
storeClosingSig(ch, st, closingSigArg) ==
  IF ch.closing_sig = NoSig /\ closingSigArg # NoSig
  THEN setChannel("ok", NoProof, [ch EXCEPT !.closing_sig = closingSigArg], st, 0)
  ELSE Result("ok", NoProof, ch, st, 0, 0, 0)

\* The close transaction: `fn` is the contract function called, the proof
\* and the counter-signature are the arguments it is called with
CloseTx(fn, proof, closingSig) ==
  [fn |-> fn, proof |-> proof, closingSig |-> closingSig]

NoTx == CloseTx("", NoProof, NoSig)

CloseResult(res, chn, bn, tkn, tx) ==
  [res |-> res, chain |-> chn, blockNumber |-> bn, tokens |-> tkn, tx |-> tx]

\* closeChannel sending the proof as it is, unsigned, with a counter-signature
closeOpened_NeverSigns(ch, st, chn, bn, tkn, closingSigArg, outcome, answer) ==
  LET closingSig == closingSigOf(ch, closingSigArg)
      stored == storeClosingSig(ch, st, closingSigArg)
      proof == stored.channel.proof
      minedAt == bn + 1
  IN CloseResult(Result("ok", proof, stored.channel, stored.store, 0, 0, 0),
                 IF closingSig # NoSig
                 THEN cooperativeClose(chn, ch.account, ch.receiver, ch.block,
                                       proof.balance, proof.sig, closingSig, minedAt)
                 ELSE uncooperativeClose(chn, ch.account, ch.receiver, ch.block,
                                         proof.balance, minedAt),
                 minedAt, tkn,
                 CloseTx(IF closingSig # NoSig THEN "cooperativeClose"
                         ELSE "uncooperativeClose", proof, closingSig))

\* closeChannel sending the pending proof when there is one
closeOpened_SubmitsPending(ch, st, chn, bn, tkn, closingSigArg, outcome, answer) ==
  LET closingSig == closingSigOf(ch, closingSigArg)
      stored == storeClosingSig(ch, st, closingSigArg)
      proof == IF ch.next_proof # NoProof THEN ch.next_proof ELSE ch.proof
      minedAt == bn + 1
  IN CloseResult(Result("ok", proof, stored.channel, stored.store, 0, 0, 0),
                 IF closingSig # NoSig
                 THEN cooperativeClose(chn, ch.account, ch.receiver, ch.block,
                                       proof.balance, proof.sig, closingSig, minedAt)
                 ELSE uncooperativeClose(chn, ch.account, ch.receiver, ch.block,
                                         proof.balance, minedAt),
                 minedAt, tkn,
                 CloseTx(IF closingSig # NoSig THEN "cooperativeClose"
                         ELSE "uncooperativeClose", proof, closingSig))

\* closeChannel once getChannelInfo has reported the channel opened
closeOpened(ch, st, chn, bn, tkn, closingSigArg, outcome, answer) ==
  LET closingSig == closingSigOf(ch, closingSigArg)
      stored == storeClosingSig(ch, st, closingSigArg)
      signed == IF closingSig # NoSig /\ stored.channel.proof.sig = NoSig
                THEN signNewProof(stored.channel, stored.store,
                                  stored.channel.proof, outcome, answer)
                ELSE Result("ok", stored.channel.proof, stored.channel,
                            stored.store, 0, 0, 0)
      proof == signed.out
      minedAt == bn + 1
  IN IF signed.ret # "ok" THEN CloseResult(signed, chn, bn, tkn, NoTx)
     ELSE CloseResult(signed,
                      IF closingSig # NoSig
                      THEN cooperativeClose(chn, ch.account, ch.receiver, ch.block,
                                            proof.balance, proof.sig, closingSig,
                                            minedAt)
                      ELSE uncooperativeClose(chn, ch.account, ch.receiver,
                                              ch.block, proof.balance, minedAt),
                      minedAt, tkn,
                      CloseTx(IF closingSig # NoSig THEN "cooperativeClose"
                              ELSE "uncooperativeClose", proof, closingSig))

\* closeChannel keeping the given counter-signature before it looks at the state
closeChannel_StoresFirst(ch, st, chn, bn, tkn, closingSigArg, outcome, answer) ==
  IF ~isChannelValid(ch)
  THEN CloseResult(Fail("InvalidChannel", ch, st), chn, bn, tkn, NoTx)
  ELSE
    LET info == getChannelInfo(ch, chn)
        stored == storeClosingSig(ch, st, closingSigArg)
    IN IF info.err # "" THEN CloseResult(Fail(info.err, ch, st), chn, bn, tkn, NoTx)
       ELSE IF info.state # "opened"
       THEN CloseResult(Fail("ChannelAlreadyClosed", stored.channel, stored.store),
                        chn, bn, tkn, NoTx)
       ELSE closeOpened(ch, st, chn, bn, tkn, closingSigArg, outcome, answer)

closeChannel(ch, st, chn, bn, tkn, closingSigArg, outcome, answer) ==
  IF ~isChannelValid(ch)
  THEN CloseResult(Fail("InvalidChannel", ch, st), chn, bn, tkn, NoTx)
  ELSE
    LET info == getChannelInfo(ch, chn)
    IN IF info.err # "" THEN CloseResult(Fail(info.err, ch, st), chn, bn, tkn, NoTx)
       ELSE IF info.state # "opened"
       THEN CloseResult(Fail("ChannelAlreadyClosed", ch, st), chn, bn, tkn, NoTx)
       ELSE closeOpened(ch, st, chn, bn, tkn, closingSigArg, outcome, answer)

settleChannel(ch, st, chn, bn, tkn, challenge, chal) ==
  IF ~isChannelValid(ch)
  THEN TxResult(Fail("InvalidChannel", ch, st), chn, bn, tkn)
  ELSE
    LET info == getChannelInfo(ch, chn)
        minedAt == bn + 1
    IN IF info.err # "" THEN TxResult(Fail(info.err, ch, st), chn, bn, tkn)
       ELSE IF info.state # "closed"
       THEN TxResult(Fail("ChannelNotClosed", ch, st), chn, bn, tkn)
       ELSE IF challenge # 0 /\ bn < info.block + challenge
       THEN TxResult(Fail("SettleTooEarly", ch, st), chn, bn, tkn)
       ELSE TxResult(Result("ok", NoProof, ch, st, 0, 0, 0),
                     settle(chn, ch.account, ch.receiver, ch.block, minedAt, chal),
                     minedAt, tkn)

\* ------------------------------------------------------------ the store
loadStoredChannel(ch, st, account, receiver) ==
  LET value == st[StorageKey(account, receiver)]
  IN IF value = NoItem THEN Result("false", NoProof, NoChannel, st, 0, 0, 0)
     ELSE Result("true", NoProof,
                 MicroChannel(value.account, value.receiver, value.block,
                              ParseProof(value.proof), ParseProof(value.next_proof),
                              value.closing_sig),
                 st, 0, 0, 0)

forgetStoredChannel(ch, st) ==
  IF ch = NoChannel THEN Result("ok", NoProof, ch, st, 0, 0, 0)
  ELSE Result("ok", NoProof, NoChannel,
              removeItem(st, StorageKey(ch.account, ch.receiver)), 0, 0, 0)

\* ------------------------------------------------------------ discovery
\* Blocks of the ChannelCreated events of the pair (startBlock is 0)
OpenEvents(chn, account, receiver) ==
  { b \in Blocks : OnChain(chn, account, receiver, b).created }

\* A channel as the scan builds it for a ChannelCreated event
Candidate(account, receiver, block) ==
  MicroChannel(account, receiver, block, Proof(0, NoSig), NoProof, NoSig)

\* The filter measuring the challenge period from the close request
StillOpen_FromCloseBlock(chn, bn, chal, account, receiver) ==
  { b \in OpenEvents(chn, account, receiver) :
      /\ OnChain(chn, account, receiver, b).settled = 0
      /\ ~(/\ OnChain(chn, account, receiver, b).closed # 0
           /\ OnChain(chn, account, receiver, b).closed + chal > bn) }

\* The events that pass the filter: no ChannelSettled of that open block,
\* and no ChannelCloseRequested of it while open block + challenge is
\* beyond the current block
StillOpen(chn, bn, chal, account, receiver) ==
  { b \in OpenEvents(chn, account, receiver) :
      /\ OnChain(chn, account, receiver, b).settled = 0
      /\ ~(/\ OnChain(chn, account, receiver, b).closed # 0
           /\ b + chal > bn) }

Earliest(blocks) == CHOOSE b \in blocks : \A c \in blocks : b <= c

\* What a scan leaves: the result, and this.challenge
Scan(res, chal) == [res |-> res, challenge |-> chal]

\* the scan without the filter on ChannelSettled events
loadChannelFromBlockchain_IgnoresSettled(ch, st, chn, bn, chal, account, receiver, fetched) ==
  IF OpenEvents(chn, account, receiver) = {}
  THEN Scan(Fail("NoChannelFound", ch, st), chal)
  ELSE IF ~(fetched > 0)
  THEN Scan(Fail("InvalidChallenge", ch, st), fetched)
  ELSE
    LET valid == { b \in OpenEvents(chn, account, receiver) :
                     getChannelInfo(Candidate(account, receiver, b), chn).err = "" }
    IN IF valid = {}
       THEN Scan(Fail("NoOpenChannel", ch, st), fetched)
       ELSE Scan(setChannel("ok", NoProof,
                            Candidate(account, receiver, Earliest(valid)), st, 0),
                 fetched)

\* The scan giving up at the first candidate for which getChannelInfo throws
loadChannelFromBlockchain_StopsAtFailure(ch, st, chn, bn, chal, account, receiver, fetched) ==
  IF OpenEvents(chn, account, receiver) = {}
  THEN Scan(Fail("NoChannelFound", ch, st), chal)
  ELSE IF ~(fetched > 0)
  THEN Scan(Fail("InvalidChallenge", ch, st), fetched)
  ELSE
    LET open == StillOpen(chn, bn, fetched, account, receiver)
    IN IF open = {}
          \/ getChannelInfo(Candidate(account, receiver, Earliest(open)), chn).err # ""
       THEN Scan(Fail("NoOpenChannel", ch, st), fetched)
       ELSE Scan(setChannel("ok", NoProof,
                            Candidate(account, receiver, Earliest(open)), st, 0),
                 fetched)

loadChannelFromBlockchain(ch, st, chn, bn, chal, account, receiver, fetched) ==
  IF OpenEvents(chn, account, receiver) = {}
  THEN Scan(Fail("NoChannelFound", ch, st), chal)
  ELSE IF ~(fetched > 0)
  THEN Scan(Fail("InvalidChallenge", ch, st), fetched)
  ELSE
    LET valid == { b \in StillOpen(chn, bn, fetched, account, receiver) :
                     getChannelInfo(Candidate(account, receiver, b), chn).err = "" }
    IN IF valid = {}
       THEN Scan(Fail("NoOpenChannel", ch, st), fetched)
       ELSE Scan(setChannel("ok", NoProof,
                            Candidate(account, receiver, Earliest(valid)), st, 0),
                 fetched)

\* ---------------------------------------------------------------- state
\* --------------------------------------------------------------- waitTx
\* One waitTx(txHash, confirmations) call: where it stands (`pc`), the block
\* its transaction was mined in (`txBlock`, 0 while pending), what the poll
\* under way has read (`receipt`: the receipt's block, 0 when there is no
\* receipt; `block`: getBlockNumber), the polls made, the receipt returned.
Waiter(pc, confirmations, txBlock, receipt, block, polls, result) ==
  [pc |-> pc, confirmations |-> confirmations, txBlock |-> txBlock,
   receipt |-> receipt, block |-> block, polls |-> polls, result |-> result]

NoWaiter == Waiter("none", 0, 0, 0, 0, 0, 0)

\* a poll that returns whatever the confirmations asked for
waitTxReturns_IgnoresConfirmations(receipt, block, confirmations) ==
  receipt # 0

\* The test a poll makes: return the receipt, or sleep and poll again
\* waitTx asking for one confirmation more
waitTxReturns_OneMore(receipt, block, confirmations) ==
  receipt # 0 /\ ~(block - receipt <= confirmations)

waitTxReturns(receipt, block, confirmations) ==
  /\ receipt # 0
  /\ ~(block - receipt < confirmations)

VARIABLES
  channel,      \* this.channel
  store,        \* localStorage: key -> item
  chain,        \* the contract: open block -> channel of (Sender, Receiver)
  blockNumber,  \* web3.eth.getBlockNumber()
  tokens,       \* token.balanceOf(Sender)
  challenge,    \* this.challenge
  last,         \* the call that has just returned, until the caller takes
                \* its result: arguments, outcome, channel and store before
  waiter,       \* a waitTx call followed poll by poll, and its transaction
  period,       \* challenge_period() of the deployed contract
  calls         \* incrementBalanceAndSign calls suspended at their await

vars == <<channel, store, chain, blockNumber, tokens, challenge, last, waiter,
          period, calls>>

Call(op, proof, val, sig, res) ==
  [op |-> op, proof |-> proof, val |-> val, sig |-> sig,
   ret |-> res.ret, out |-> res.out, asked |-> res.reqs > 0,
   current |-> res.current, required |-> res.required,
   pre |-> channel, preStore |-> store, preChain |-> chain,
   preBlock |-> blockNumber, preChallenge |-> challenge,
   info |-> ChannelInfo("", "", 0, 0, 0), tx |-> NoTx, reply |-> NoReply]

\* No call is waiting for its caller
NoCall ==
  [op |-> "", proof |-> NoProof, val |-> 0, sig |-> NoSig,
   ret |-> "", out |-> NoProof, asked |-> FALSE, current |-> 0, required |-> 0,
   pre |-> NoChannel, preStore |-> [k \in StorageKeys |-> NoItem],
   preChain |-> [b \in Blocks |-> NoChainChannel],
   preBlock |-> 0, preChallenge |-> 0,
   info |-> ChannelInfo("", "", 0, 0, 0), tx |-> NoTx, reply |-> NoReply]

Init ==
  /\ channel = InitialChannel
  /\ store = [k \in StorageKeys |-> NoItem]
  /\ chain = [b \in Blocks |-> NoChainChannel]
  /\ blockNumber = 0
  /\ tokens = MaxTokens
  /\ challenge = 0
  /\ last = NoCall
  /\ waiter = NoWaiter
  /\ period = ChallengePeriod
  /\ calls = [s \in Slots |-> NoSlot]

Idle == last = NoCall

\* A call that touches only the client
Local(op, proof, val, res) ==
  /\ channel' = res.channel
  /\ store' = res.store
  /\ last' = Call(op, proof, val, NoSig, res)
  /\ UNCHANGED <<chain, blockNumber, tokens, challenge, waiter, period, calls>>

\* A call that sends transactions and waits for them
Sent(op, val, sig, tx) ==
  /\ tx.blockNumber <= MaxBlock
  /\ channel' = tx.res.channel
  /\ store' = tx.res.store
  /\ chain' = tx.chain
  /\ blockNumber' = tx.blockNumber
  /\ tokens' = tx.tokens
  /\ last' = Call(op, NoProof, val, sig, tx.res)
  /\ UNCHANGED <<challenge, waiter, period, calls>>

\* ------------------------------------------------------------- arguments
Balances == 0..MaxBal

Deposits == 0..MaxDeposit

UnsignedProofs == { Proof(b, NoSig) : b \in Balances }

\* Proofs a caller may hold for the tracked channel: signed by the sender
\* over their own balance, ...
SenderProofs(ch) ==
  { Proof(b, SigOver(Sender, ch.receiver, ch.block, b, ContractAddr)) : b \in Balances }

\* ... or signed by someone else, or by the sender over another balance
ForeignProofs(ch) ==
  { Proof(0, SigOver(Mallory, ch.receiver, ch.block, 0, ContractAddr)),
    Proof(1, SigOver(Sender, ch.receiver, ch.block, 0, ContractAddr)) }

\* ... or signed by the sender for another tuple: another open block (an
\* earlier or later channel of the pair), another receiver, another contract
MisboundProofs(ch) ==
  { Proof(1, SigOver(Sender, ch.receiver, b, 1, ContractAddr)) :
      b \in {x \in Blocks : chain[x].created /\ x # ch.block} }
  \cup { Proof(1, SigOver(Sender, Mallory, ch.block, 1, ContractAddr)),
         Proof(1, SigOver(Sender, ch.receiver, ch.block, 1, OtherContract)) }

PendingProofs(ch) == IF ch.next_proof = NoProof THEN {} ELSE {ch.next_proof}

\* The cooperative-close signature a caller may pass: the receiver's for
\* the confirmed balance
ClosingSigs(ch) == { ClosingSigFor(ch.account, ch.block, ch.proof.balance) }

\* --------------------------------------------------------------- actions
\* Callers reset the balance of a channel they have opened or loaded, not of
\* the placeholder the constructor leaves.
SetBalance ==
  /\ Idle
  /\ channel.account # ""
  /\ \E value \in Balances :
       Local("setBalance", NoProof, value, setBalance(channel, store, value))

ConfirmPayment ==
  /\ Idle
  /\ \E proof \in {Proof(0, NoSig)} \cup PendingProofs(channel) \cup ForeignProofs(channel) :
       Local("confirmPayment", proof, 0, confirmPayment(channel, store, proof))

VerifyProof ==
  /\ Idle
  /\ \E proof \in {Proof(0, NoSig)} \cup SenderProofs(channel) \cup ForeignProofs(channel)
                   \cup MisboundProofs(channel) :
       Local("verifyProof", proof, 0, verifyProof(channel, store, proof))

SignNewProof ==
  /\ Idle
  /\ \E proof \in {NoProof} \cup UnsignedProofs \cup PendingProofs(channel)
                   \cup ForeignProofs(channel) :
       \E reply \in ProviderReplies(
            getBalanceProofSignatureParams(channel,
              IF proof = NoProof THEN channel.proof ELSE proof)) :
         LET signed == signNewProof(channel, store, proof,
                                    reply.outcome, reply.answer)
         IN /\ channel' = signed.channel
            /\ store' = signed.store
            /\ last' = [Call("signNewProof", proof, 0, NoSig, signed)
                        EXCEPT !.reply = IF signed.reqs > 0 THEN reply ELSE NoReply]
            /\ UNCHANGED <<chain, blockNumber, tokens, challenge, waiter, period, calls>>

IncrementBalanceAndSign ==
  /\ Idle
  /\ \E amount \in Balances :
       \E reply \in ProviderReplies(
            getBalanceProofSignatureParams(channel,
              Proof(channel.proof.balance + amount, NoSig))) :
         Local("incrementBalanceAndSign", NoProof, amount,
               incrementBalanceAndSign(channel, store, chain, amount,
                                       reply.outcome, reply.answer))

LoadStoredChannel ==
  /\ Idle
  /\ \E key \in StorageKeys :
       Local("loadStoredChannel", NoProof, 0,
             loadStoredChannel(channel, store, key[1], key[2]))

ForgetStoredChannel ==
  /\ Idle
  /\ Local("forgetStoredChannel", NoProof, 0, forgetStoredChannel(channel, store))

OpenChannel ==
  /\ Idle
  /\ \E deposit \in Deposits :
       LET tx == openChannel(channel, store, chain, blockNumber, tokens,
                             Sender, Receiver, deposit)
       IN /\ Cardinality({b \in Blocks : tx.chain[b].created}) <= MaxChannels
          /\ Sent("openChannel", deposit, NoSig, tx)

TopUpChannel ==
  /\ Idle
  /\ \E deposit \in Deposits :
       Sent("topUpChannel", deposit, NoSig,
            topUpChannel(channel, store, chain, blockNumber, tokens, deposit))

CloseChannel ==
  /\ Idle
  /\ \E closingSig \in {NoSig} \cup ClosingSigs(channel) :
       \E reply \in ProviderReplies(
            getBalanceProofSignatureParams(channel, channel.proof)) :
         LET closed == closeChannel(channel, store, chain, blockNumber, tokens,
                                    closingSig, reply.outcome, reply.answer)
         IN /\ closed.blockNumber <= MaxBlock
            /\ channel' = closed.res.channel
            /\ store' = closed.res.store
            /\ chain' = closed.chain
            /\ blockNumber' = closed.blockNumber
            /\ tokens' = closed.tokens
            /\ last' = [Call("closeChannel", NoProof, 0, closingSig, closed.res)
                        EXCEPT !.tx = closed.tx]
            /\ UNCHANGED <<challenge, waiter, period, calls>>

SettleChannel ==
  /\ Idle
  /\ Sent("settleChannel", 0, NoSig,
          settleChannel(channel, store, chain, blockNumber, tokens, challenge,
                        period))

GetChallengePeriod ==
  /\ Idle
  /\ challenge' = period
  /\ last' = Call("getChallengePeriod", NoProof, 0, NoSig,
                  IF period > 0
                  THEN Result("ok", NoProof, channel, store, 0, 0, 0)
                  ELSE Fail("InvalidChallenge", channel, store))
  /\ UNCHANGED <<channel, store, chain, blockNumber, tokens, waiter, period, calls>>

\* getChannelInfo(channel?): of the tracked channel, or of the channel of the
\* pair the caller says was opened in a block
ChannelAt(block) ==
  IF block = 0 THEN channel
  ELSE MicroChannel(Sender, Receiver, block, Proof(0, NoSig), NoProof, NoSig)

GetChannelInfo ==
  /\ Idle
  /\ \E block \in {0} \cup Blocks :
       LET info == getChannelInfo(ChannelAt(block), chain)
       IN last' = [Call("getChannelInfo", NoProof, block, NoSig,
                        Result(IF info.err # "" THEN info.err ELSE "ok",
                               NoProof, channel, store, 0, 0, 0))
                     EXCEPT !.info = info]
  /\ UNCHANGED <<channel, store, chain, blockNumber, tokens, challenge, waiter, period, calls>>

LoadChannelFromBlockchain ==
  /\ Idle
  /\ LET scan == loadChannelFromBlockchain(channel, store, chain, blockNumber,
                                           challenge, Sender, Receiver, period)
     IN /\ channel' = scan.res.channel
        /\ store' = scan.res.store
        /\ challenge' = scan.challenge
        /\ last' = Call("loadChannelFromBlockchain", NoProof, 0, NoSig, scan.res)
  /\ UNCHANGED <<chain, blockNumber, tokens, waiter, period, calls>>

\* The page is loaded again: a new client over the same localStorage
Construct ==
  /\ Idle
  /\ channel' = InitialChannel
  /\ challenge' = 0
  /\ last' = Call("constructor", NoProof, 0, NoSig,
                  Result("ok", NoProof, InitialChannel, store, 0, 0, 0))
  /\ UNCHANGED <<store, chain, blockNumber, tokens, waiter, period, calls>>

\* The chain grows by a block
MineBlock ==
  /\ Idle
  /\ blockNumber < MaxBlock
  /\ blockNumber' = blockNumber + 1
  /\ UNCHANGED <<channel, store, chain, tokens, challenge, last, waiter, period, calls>>

\* The caller takes the result of the call that returned
Return ==
  /\ last # NoCall
  /\ last' = NoCall
  /\ UNCHANGED <<channel, store, chain, blockNumber, tokens, challenge, waiter, period, calls>>

\* setChannel(channel): the caller hands over a channel of the pair to track
\* and store
StoredBalances == 0..MaxStoredBal

StoredProofs(block) ==
  UNION { { Proof(b, NoSig),
            Proof(b, SigOver(Sender, Receiver, block, b, ContractAddr)) } :
          b \in StoredBalances }

StoredChannels ==
  { MicroChannel(Sender, Receiver, 1, proof, next_proof, closing_sig) :
      proof \in StoredProofs(1),
      next_proof \in {NoProof, Proof(MaxStoredBal,
                        SigOver(Sender, Receiver, 1, MaxStoredBal, ContractAddr))},
      closing_sig \in {NoSig} }

SetChannel ==
  /\ Idle
  /\ \E ch \in StoredChannels :
       Local("setChannel", NoProof, 0, setChannel("ok", NoProof, ch, store, 0))

\* waitTx, poll by poll.  The transaction has been sent; it is mined in some
\* later block, or never.
Confirmations == 0..MaxConfirmations

WaitTx ==
  /\ waiter.pc = "none"
  /\ \E confirmations \in Confirmations :
       waiter' = Waiter("polling", confirmations, 0, 0, 0, 0, 0)
  /\ UNCHANGED <<channel, store, chain, blockNumber, tokens, challenge, last, period, calls>>

MineTx ==
  /\ waiter.pc # "none"
  /\ waiter.txBlock = 0
  /\ blockNumber < MaxBlock
  /\ blockNumber' = blockNumber + 1
  /\ waiter' = [waiter EXCEPT !.txBlock = blockNumber + 1]
  /\ UNCHANGED <<channel, store, chain, tokens, challenge, last, period, calls>>

\* await getTransactionReceipt(txHash)
PollReceipt ==
  /\ waiter.pc = "polling"
  /\ waiter' = [waiter EXCEPT !.pc = "receipt", !.receipt = waiter.txBlock,
                              !.polls = IF waiter.polls < MaxPolls
                                        THEN waiter.polls + 1 ELSE MaxPolls]
  /\ UNCHANGED <<channel, store, chain, blockNumber, tokens, challenge, last, period, calls>>

\* await getBlockNumber(), and the test on both
PollBlock ==
  /\ waiter.pc = "receipt"
  /\ waiter' = IF waitTxReturns(waiter.receipt, blockNumber, waiter.confirmations)
               THEN [waiter EXCEPT !.pc = "returned", !.block = blockNumber,
                                   !.result = waiter.receipt]
               ELSE [waiter EXCEPT !.pc = "sleeping", !.block = blockNumber]
  /\ UNCHANGED <<channel, store, chain, blockNumber, tokens, challenge, last, period, calls>>

\* asyncSleep(2e3) is over
Wake ==
  /\ waiter.pc = "sleeping"
  /\ waiter' = [waiter EXCEPT !.pc = "polling"]
  /\ UNCHANGED <<channel, store, chain, blockNumber, tokens, challenge, last, period, calls>>

\* The operation that awaited waitTx goes on to its end
Complete ==
  /\ waiter.pc = "returned"
  /\ waiter' = [waiter EXCEPT !.pc = "completed"]
  /\ UNCHANGED <<channel, store, chain, blockNumber, tokens, challenge, last,
                 period, calls>>

Next ==
  \/ SetBalance
  \/ ConfirmPayment
  \/ VerifyProof
  \/ SignNewProof
  \/ IncrementBalanceAndSign
  \/ LoadStoredChannel
  \/ ForgetStoredChannel
  \/ OpenChannel
  \/ TopUpChannel
  \/ CloseChannel
  \/ SettleChannel
  \/ GetChallengePeriod
  \/ GetChannelInfo
  \/ LoadChannelFromBlockchain
  \/ Construct
  \/ MineBlock
  \/ Return

Spec == Init /\ [][Next]_vars

\* ---------------------------------------------------------------- claims
\* What the contract holds for the channel the client tracked before the
\* call that has just returned
PreOnChain == OnChain(chain, last.pre.account, last.pre.receiver, last.pre.block)

\* The contract reports the channel as opened: deposited, not closed, not settled
Opened(ch) ==
  /\ isChannelValid(ch)
  /\ OnChain(chain, ch.account, ch.receiver, ch.block).deposit > 0
  /\ OnChain(chain, ch.account, ch.receiver, ch.block).closed = 0
  /\ OnChain(chain, ch.account, ch.receiver, ch.block).settled = 0

DepositOf(ch) == OnChain(chain, ch.account, ch.receiver, ch.block).deposit

\* The signature of the proof passed to the last call recovers to the
\* account of the channel tracked before the call, over the canonical tuple
ArgRecoversToAccount ==
  recoverTypedSignature(getBalanceProofSignatureParams(last.pre, last.proof),
                        last.proof.sig) = last.pre.account

Persisted ==
  store[StorageKey(channel.account, channel.receiver)] = Stringify(channel)

Untouched == channel = last.pre /\ store = last.preStore

\* C1: verifyProof of a signed proof whose signature recovers to the tracked
\* channel's account over (receiver, openBlock, proof.balance, contract)
\* returns true, makes that proof the confirmed proof, clears the pending
\* proof and persists the channel as it then is.
C1_VerifyAccepts ==
  (/\ last.op = "verifyProof"
   /\ last.pre # NoChannel
   /\ last.proof.sig # NoSig
   /\ ArgRecoversToAccount)
  => /\ last.ret = "true"
     /\ channel.proof = last.proof
     /\ channel.next_proof = NoProof
     /\ channel = [last.pre EXCEPT !.proof = last.proof, !.next_proof = NoProof]
     /\ Persisted

\* a pending proof was there, and verifyProof accepted another proof
C1_Witness ==
  /\ last.op = "verifyProof"
  /\ last.ret = "true"
  /\ last.pre.next_proof # NoProof
  /\ last.proof # last.pre.next_proof
  /\ last.proof.balance > 0

\* C2: verifyProof of a signed proof whose signature does not recover to the
\* tracked channel's account returns false and leaves the channel (proof and
\* pending proof included) and the store as they were.
C2_VerifyRejects ==
  (/\ last.op = "verifyProof"
   /\ last.pre # NoChannel
   /\ last.proof.sig # NoSig
   /\ ~ArgRecoversToAccount)
  => /\ last.ret = "false"
     /\ Untouched

\* the sender's own signature, over another balance than the proof states,
\* is rejected while a pending proof and a stored record exist
C2_Witness ==
  /\ last.op = "verifyProof"
  /\ last.ret = "false"
  /\ last.proof.sig.signer = Sender
  /\ last.pre.next_proof # NoProof
  /\ store[StorageKey(Sender, Receiver)] # NoItem

\* C3: confirmPayment(p) on a tracked channel: if a signed pending proof is
\* there and its signature equals p's, the pending proof becomes the proof
\* and the pending proof is cleared; otherwise the call fails with the
\* invalid-pending-proof error and changes nothing.
C3_ConfirmPayment ==
  (last.op = "confirmPayment" /\ last.pre # NoChannel)
  => IF /\ last.pre.next_proof # NoProof
        /\ last.pre.next_proof.sig # NoSig
        /\ last.pre.next_proof.sig = last.proof.sig
     THEN /\ last.ret = "ok"
          /\ channel.proof = last.pre.next_proof
          /\ channel.next_proof = NoProof
          /\ Persisted
     ELSE /\ last.ret = "InvalidPendingProof"
          /\ Untouched

\* a pending proof is there and the caller confirms with another signature
C3_Witness ==
  /\ last.op = "confirmPayment"
  /\ last.ret = "InvalidPendingProof"
  /\ last.pre.next_proof # NoProof
  /\ last.proof.sig # NoSig
  /\ channel.next_proof = last.pre.next_proof

\* C4: incrementBalanceAndSign(amount) on a channel the contract reports as
\* opened, with proof.balance + amount above the deposit, fails with
\* InsufficientChannelFunds carrying the deposit and the required balance,
\* sends no signing request, sets no pending proof and leaves the channel
\* (a pending proof already there included) and the store as they were.
C4_InsufficientFunds ==
  (/\ last.op = "incrementBalanceAndSign"
   /\ Opened(last.pre)
   /\ last.pre.proof.balance + last.val > PreOnChain.deposit)
  => /\ last.ret = "InsufficientChannelFunds"
     /\ last.current = PreOnChain.deposit
     /\ last.required = last.pre.proof.balance + last.val
     /\ ~last.asked
     /\ last.out = NoProof
     /\ Untouched

\* the increment alone fits the deposit, the new balance does not
C4_Witness ==
  /\ last.op = "incrementBalanceAndSign"
  /\ last.ret = "InsufficientChannelFunds"
  /\ last.val <= last.current
  /\ last.required > last.current
  /\ channel.next_proof = NoProof

\* C5: on a valid tracked channel, signNewProof of a proof that already
\* carries a signature returns that proof unchanged, sends no signing request, and changes neither the
\* channel nor the store; so signing what signNewProof returned is a no-op.
C5_SignIdempotent ==
  (/\ last.op = "signNewProof"
   /\ isChannelValid(last.pre)
   /\ (IF last.proof = NoProof THEN last.pre.proof ELSE last.proof).sig # NoSig)
  => /\ last.ret = "ok"
     /\ last.out = (IF last.proof = NoProof THEN last.pre.proof ELSE last.proof)
     /\ ~last.asked
     /\ Untouched

\* the proof an earlier signNewProof stored as pending is signed again
C5_Witness ==
  /\ last.op = "signNewProof"
  /\ last.ret = "ok"
  /\ last.proof # NoProof
  /\ last.proof = last.pre.next_proof
  /\ last.proof.sig.signer = Sender
  /\ last.out = last.proof

\* A balance the client stores for the channel, confirmed or pending, is
\* above the deposit of the opened channel
Exceeds(ch) ==
  /\ Opened(ch)
  /\ \/ ch.proof.balance > DepositOf(ch)
     \/ ch.next_proof # NoProof /\ ch.next_proof.balance > DepositOf(ch)

\* The caller chose the balance the last call stored
CallerChoseBalance ==
  \/ last.op = "setBalance"
  \/ last.op = "verifyProof"
  \/ last.op = "signNewProof" /\ last.proof # NoProof

\* The last call read the channel back from the store
ReadBack == last.op = "loadStoredChannel" /\ last.ret = "true"

\* C6 as stated: while the channel is opened, proof.balance <= deposit in
\* every reachable state.
C6_BalanceWithinDeposit ==
  Opened(channel) => channel.proof.balance <= DepositOf(channel)

\* C6 amended: while the channel is opened, a stored balance (confirmed or
\* pending) comes to exceed the deposit only in a call where the caller
\* chose the balance: setBalance, verifyProof, or signNewProof of a given
\* proof (or when loadStoredChannel reads back a record stored after such a
\* call).  An incrementBalanceAndSign that succeeds signs a balance of at
\* most the deposit.
C6_OnlyCallerExceedsDeposit ==
  /\ (last # NoCall /\ Exceeds(channel) /\ ~Exceeds(last.pre))
       => CallerChoseBalance \/ ReadBack
  /\ (last.op = "incrementBalanceAndSign" /\ last.ret = "ok")
       => /\ last.out.balance = last.pre.proof.balance + last.val
          /\ last.out.balance <= PreOnChain.deposit
          /\ channel.next_proof = last.out

\* incrementBalanceAndSign has signed a balance that uses up the deposit
C6_Witness ==
  /\ last.op = "incrementBalanceAndSign"
  /\ last.ret = "ok"
  /\ last.asked
  /\ last.val > 0
  /\ channel.next_proof.balance = DepositOf(channel)
  /\ Opened(channel)

\* The pending proof is below the confirmed proof
Low(ch) ==
  /\ ch # NoChannel
  /\ ch.next_proof # NoProof
  /\ ch.next_proof.balance < ch.proof.balance

\* C7 as stated: whenever a pending proof is present, its balance is at
\* least the confirmed proof's.
C7_PendingAtLeastProof ==
  (channel # NoChannel /\ channel.next_proof # NoProof)
  => channel.next_proof.balance >= channel.proof.balance

\* C7 amended: a pending proof below the confirmed proof appears only in a
\* signNewProof call given a proof whose balance is below the confirmed
\* balance (or when loadStoredChannel reads back a record stored after such
\* a call); after a successful incrementBalanceAndSign (amount >= 0) the
\* pending proof is present and at least the confirmed proof.
C7_OnlyGivenProofLowers ==
  /\ (last # NoCall /\ Low(channel) /\ ~Low(last.pre))
       => \/ /\ last.op = "signNewProof"
             /\ last.proof # NoProof
             /\ last.proof.balance < last.pre.proof.balance
          \/ ReadBack
  /\ (last.op = "incrementBalanceAndSign" /\ last.ret = "ok")
       => /\ channel.next_proof # NoProof
          /\ channel.next_proof.balance >= channel.proof.balance

\* a pending proof above a confirmed balance that is itself above zero
C7_Witness ==
  /\ last.op = "incrementBalanceAndSign"
  /\ last.ret = "ok"
  /\ channel.proof.balance > 0
  /\ channel.next_proof.balance > channel.proof.balance

\* The last call was made on a tracked channel and left the same channel
\* instance tracked
SameInstance ==
  /\ last # NoCall
  /\ last.pre # NoChannel
  /\ channel # NoChannel
  /\ channel.account = last.pre.account
  /\ channel.receiver = last.pre.receiver
  /\ channel.block = last.pre.block

PaymentOps ==
  {"signNewProof", "incrementBalanceAndSign", "confirmPayment", "setBalance",
   "verifyProof", "topUpChannel", "closeChannel", "settleChannel"}

\* C8 as stated: for one channel instance, no operation lowers the
\* confirmed balance, and it is never negative.
C8_BalanceMonotone ==
  (SameInstance /\ last.op \in PaymentOps)
  => /\ channel.proof.balance >= last.pre.proof.balance
     /\ channel.proof.balance >= 0

\* C8 amended: for one channel instance, the confirmed balance is lowered
\* only by setBalance or verifyProof given a lower balance, or by
\* confirmPayment of a pending proof that was below it; signNewProof,
\* incrementBalanceAndSign (amount >= 0), topUpChannel, closeChannel and
\* settleChannel never lower it.  Given balances and amounts >= 0 it
\* is never negative.
C8_OnlyResetLowers ==
  (SameInstance /\ last.op \in PaymentOps)
  => /\ channel.proof.balance >= 0
     /\ channel.proof.balance < last.pre.proof.balance
          => \/ last.op = "setBalance" /\ last.val < last.pre.proof.balance
             \/ last.op = "verifyProof" /\ last.proof.balance < last.pre.proof.balance
             \/ last.op = "confirmPayment" /\ Low(last.pre)

\* a confirmed balance above zero survives a further payment being confirmed
C8_Witness ==
  /\ SameInstance
  /\ last.op = "confirmPayment"
  /\ last.ret = "ok"
  /\ last.pre.proof.balance > 0
  /\ channel.proof.balance > last.pre.proof.balance

\* The last call installed as confirmed proof what was the pending proof
PendingPromoted ==
  /\ SameInstance
  /\ last.pre.next_proof # NoProof
  /\ last.pre.proof # last.pre.next_proof
  /\ channel.proof = last.pre.next_proof

\* The last call left a pending proof that was not there before it
PendingAppeared ==
  /\ last # NoCall
  /\ channel # NoChannel
  /\ channel.next_proof # NoProof
  /\ (last.pre = NoChannel \/ last.pre.next_proof # channel.next_proof)

\* Calls that sign a proof, and the call that reads the stored record back
SigningOps == {"signNewProof", "incrementBalanceAndSign", "closeChannel"}

PendingOnlyBySigning ==
  PendingAppeared
  => \/ /\ last.op \in SigningOps
        /\ last.ret = "ok"
        /\ last.asked
        /\ channel.next_proof = last.out
        /\ channel.next_proof.sig # NoSig
     \/ ReadBack

\* C9 as stated: a pending proof appears only by a successful sign, and it
\* becomes the confirmed proof only in a confirmPayment whose argument
\* carries the pending proof's signature.
C9_PromotedOnlyByConfirm ==
  /\ PendingOnlyBySigning
  /\ PendingPromoted
       => /\ last.op = "confirmPayment"
          /\ last.proof.sig = last.pre.next_proof.sig

\* C9 amended: a pending proof appears only by a successful sign (or by
\* loading a stored record that holds one); it becomes the confirmed proof
\* only in a confirmPayment whose argument carries its signature, or in a
\* verifyProof called with that very proof.
C9_PromotedByConfirmOrVerify ==
  /\ PendingOnlyBySigning
  /\ PendingPromoted
       => \/ /\ last.op = "confirmPayment"
             /\ last.proof.sig = last.pre.next_proof.sig
          \/ /\ last.op = "verifyProof"
             /\ last.proof = last.pre.next_proof

\* confirmPayment has promoted the pending proof
C9_Witness ==
  /\ PendingPromoted
  /\ last.op = "confirmPayment"
  /\ last.ret = "ok"
  /\ channel.next_proof = NoProof

\* C10: signNewProof, incrementBalanceAndSign, confirmPayment, setBalance,
\* verifyProof, topUpChannel, closeChannel and settleChannel leave the
\* tracked channel's open block, account and receiver as they were.
C10_IdentityFrame ==
  (last.op \in PaymentOps /\ last.pre # NoChannel)
  => /\ channel # NoChannel
     /\ channel.block = last.pre.block
     /\ channel.account = last.pre.account
     /\ channel.receiver = last.pre.receiver

\* a call of the list has changed the proof of an opened channel
C10_Witness ==
  /\ last.op \in PaymentOps
  /\ last.pre.block > 0
  /\ channel.proof # last.pre.proof
  /\ channel.block = last.pre.block

\* C11: verifyProof returns true only for a signature made by the channel's
\* account over exactly (tracked receiver, tracked open block, proof.balance,
\* this client's contract address): a signature of the sender for another
\* balance, open block, receiver or contract is not accepted, and changes
\* nothing.
C11_SignatureBoundToTuple ==
  /\ (last.op = "verifyProof" /\ last.ret = "true")
       => /\ last.proof.sig.signer = last.pre.account
          /\ last.proof.sig.receiver = last.pre.receiver
          /\ last.proof.sig.block = last.pre.block
          /\ last.proof.sig.balance = last.proof.balance
          /\ last.proof.sig.contract = ContractAddr
  /\ (/\ last.op = "verifyProof"
      /\ last.pre # NoChannel
      /\ last.proof.sig.signer = Sender
      /\ \/ last.proof.sig.receiver # last.pre.receiver
         \/ last.proof.sig.block # last.pre.block
         \/ last.proof.sig.balance # last.proof.balance
         \/ last.proof.sig.contract # ContractAddr)
       => last.ret = "false" /\ Untouched

\* the sender's signature for an earlier channel of the pair is offered to
\* the channel opened after it, and refused
C11_Witness ==
  /\ last.op = "verifyProof"
  /\ last.ret = "false"
  /\ last.proof.sig.signer = Sender
  /\ last.proof.sig.block # 0
  /\ last.proof.sig.block < last.pre.block
  /\ last.proof.sig.balance = last.proof.balance
  /\ last.proof.sig.receiver = last.pre.receiver
  /\ last.proof.sig.contract = ContractAddr
  /\ chain[last.proof.sig.block].created

\* The channel the last getChannelInfo was asked about, and what the
\* contract and its event log hold for it
InfoArg ==
  IF last.val = 0 THEN last.pre
  ELSE MicroChannel(Sender, Receiver, last.val, Proof(0, NoSig), NoProof, NoSig)

InfoOnChain == OnChain(chain, InfoArg.account, InfoArg.receiver, InfoArg.block)

\* C12: getChannelInfo of a valid channel classifies by the events of
\* (account, receiver, open block): settled, with deposit 0, withdrawn 0 and
\* the settlement block, whenever a ChannelSettled event exists (with or
\* without a close request, and although the contract holds no deposit for
\* the channel any more); closed, with the close block, when there is a
\* close request and no settlement; opened, with the open block, otherwise;
\* without settlement the deposit must be positive, else InvalidChannel.
C12_GetInfoClassifies ==
  (last.op = "getChannelInfo" /\ isChannelValid(InfoArg))
  => IF InfoOnChain.settled # 0
     THEN last.info = ChannelInfo("", "settled", InfoOnChain.settled, 0, 0)
     ELSE IF ~(InfoOnChain.deposit > 0)
     THEN last.info.err = "InvalidChannel" /\ last.ret = "InvalidChannel"
     ELSE IF InfoOnChain.closed # 0
     THEN last.info = ChannelInfo("", "closed", InfoOnChain.closed,
                                  InfoOnChain.deposit, InfoOnChain.withdrawn)
     ELSE last.info = ChannelInfo("", "opened", InfoArg.block,
                                  InfoOnChain.deposit, InfoOnChain.withdrawn)

\* a channel that was closed by request and then settled is reported settled
C12_Witness ==
  /\ last.op = "getChannelInfo"
  /\ last.info.state = "settled"
  /\ InfoOnChain.closed # 0
  /\ InfoOnChain.settled > InfoOnChain.closed
  /\ last.info.block = InfoOnChain.settled

\* The open blocks of the pair's ChannelCreated events, and those among them
\* with no ChannelSettled event
Created == OpenEvents(chain, Sender, Receiver)

Unsettled == { b \in Created : chain[b].settled = 0 }

\* C13: loadChannelFromBlockchain: a ChannelCreated event with no close
\* request and no settlement (and a positive deposit), the earlier
\* candidates being settled, is selected: the channel tracked and stored has
\* that event's block and a zero balance; a candidate with a ChannelSettled
\* event of its open block is never selected; if every candidate is
\* settled the scan fails with NoOpenChannel and the tracked channel and
\* the store stay as they were.
C13_Discover ==
  last.op = "loadChannelFromBlockchain"
  => /\ (/\ Unsettled # {}
         /\ chain[Earliest(Unsettled)].closed = 0
         /\ chain[Earliest(Unsettled)].deposit > 0)
          => /\ last.ret = "ok"
             /\ channel = Candidate(Sender, Receiver, Earliest(Unsettled))
             /\ Persisted
     /\ last.ret = "ok"
          => /\ channel.block \in Created
             /\ chain[channel.block].settled = 0
     /\ (Created # {} /\ Unsettled = {})
          => /\ last.ret = "NoOpenChannel"
             /\ Untouched

\* the pair's first channel is settled, its second is open and is selected,
\* replacing what the client tracked
C13_Witness ==
  /\ last.op = "loadChannelFromBlockchain"
  /\ last.ret = "ok"
  /\ \E b \in Created : b < channel.block /\ chain[b].settled # 0
  /\ chain[channel.block].closed = 0
  /\ channel # last.pre

\* The scan of the chain on its own, under either challenge period.  The
\* channel manager is not part of the client: one that logs ChannelCreated
\* for an empty deposit leaves a candidate for which getChannelInfo throws.
ChallengePeriods == {ChallengePeriod, LongChallenge}

InitDiscover ==
  /\ channel = InitialChannel
  /\ store = [k \in StorageKeys |-> NoItem]
  /\ chain = [b \in Blocks |-> NoChainChannel]
  /\ blockNumber = 0
  /\ tokens = MaxTokens
  /\ challenge = 0
  /\ last = NoCall
  /\ waiter = NoWaiter
  /\ period \in ChallengePeriods
  /\ calls = [s \in Slots |-> NoSlot]

OpenEmptyChannel ==
  /\ Idle
  /\ blockNumber + 2 <= MaxBlock
  /\ Cardinality(Created) < MaxChannels
  /\ chain' = [chain EXCEPT ![blockNumber + 1] =
                 [created |-> TRUE, deposit |-> 0, withdrawn |-> 0,
                  closed |-> 0, settled |-> 0]]
  /\ blockNumber' = blockNumber + 2
  /\ UNCHANGED <<channel, store, tokens, challenge, last, waiter, period, calls>>

NextDiscover ==
  \/ OpenChannel
  \/ OpenEmptyChannel
  \/ CloseChannel
  \/ SettleChannel
  \/ LoadChannelFromBlockchain
  \/ MineBlock
  \/ Return

SpecDiscover == InitDiscover /\ [][NextDiscover]_vars

\* The candidate of block b has a close request and is closed to the scan:
\* its open block plus the challenge period is beyond the current block
ExcludedAsClosed(b) == chain[b].closed # 0 /\ b + period > blockNumber

\* The candidates the scan goes on with
Survivors == { b \in Unsettled : ~ExcludedAsClosed(b) }

\* C26: the scan drops a candidate of open block B from the still-open set
\* when a close request of B exists and B + challenge period > current
\* block, the period counting from the open block and not from the close
\* request; a candidate with a close request, B + challenge period <=
\* current block and no settlement stays in the set.  So a closed candidate
\* is never tracked while it is dropped, and is tracked when it is the
\* first one that stays.
C26_StillOpenFilter ==
  last.op = "loadChannelFromBlockchain"
  => /\ \A b \in Created :
          /\ ExcludedAsClosed(b)
               => /\ b \notin StillOpen(chain, blockNumber, period, Sender, Receiver)
                  /\ last.ret = "ok" => channel.block # b
          /\ (/\ chain[b].closed # 0
              /\ b + period <= blockNumber
              /\ chain[b].settled = 0)
               => b \in StillOpen(chain, blockNumber, period, Sender, Receiver)
     /\ (/\ Survivors # {}
         /\ chain[Earliest(Survivors)].closed # 0
         /\ chain[Earliest(Survivors)].deposit > 0)
          => /\ last.ret = "ok"
             /\ channel = Candidate(Sender, Receiver, Earliest(Survivors))

\* a closed channel dropped by the scan, under the long challenge period,
\* for its open block: the scan finds no channel
C26_Witness ==
  /\ last.op = "loadChannelFromBlockchain"
  /\ \E b \in Created :
       /\ ExcludedAsClosed(b)
       /\ chain[b].settled = 0
       /\ chain[b].closed + period > blockNumber
  /\ period = LongChallenge
  /\ last.ret = "NoOpenChannel"

\* The candidates that pass the filter and for which getChannelInfo throws
\* (no deposit), and those for which it returns
Failing == { b \in Survivors : chain[b].deposit = 0 }

Passing == Survivors \ Failing

\* C27: of the candidates that pass the filter the scan tracks the first, in
\* the order of the events, for which getChannelInfo returns; one for which
\* it throws (no deposit) is skipped and the next is tried; if it throws for
\* all of them the scan fails with NoOpenChannel and the tracked channel and
\* the store stay as they were.
C27_FirstValidCandidate ==
  last.op = "loadChannelFromBlockchain"
  => /\ Passing # {}
          => /\ last.ret = "ok"
             /\ channel = Candidate(Sender, Receiver, Earliest(Passing))
             /\ Persisted
     /\ (Created # {} /\ Passing = {})
          => /\ last.ret = "NoOpenChannel"
             /\ Untouched

\* the first candidate has no deposit and is skipped, the second is tracked
C27_Witness ==
  /\ last.op = "loadChannelFromBlockchain"
  /\ last.ret = "ok"
  /\ \E b \in Failing : b < channel.block
  /\ channel.block = Earliest(Passing)
  /\ channel # last.pre

\* Calls of one client overlapping: incrementBalanceAndSign is suspended at
\* its await while other calls begin, resume or run to their end.  The
\* caller of a call that returned a proof may hand it to confirmPayment.
\* The provider while calls overlap: it signs as asked, or the user refuses
RaceReplies(params) ==
  { r \in ProviderReplies(params) :
      \/ r.outcome = "denied"
      \/ r.outcome = "sync" /\ r.answer.signer = Sender
                            /\ r.answer.balance = params.balance }

\* verifyProof of a proof the sender signed, handed back by the receiver
VerifySent ==
  /\ Idle
  /\ \E proof \in SenderProofs(channel) :
       Local("verifyProof", proof, 0, verifyProof(channel, store, proof))

\* What a call reads of the channel before it is suspended: the channel's
\* identity, passed to getChannelInfo, and the confirmed balance
ReadAtBegin(ch) ==
  MicroChannel(ch.account, ch.receiver, ch.block, Proof(ch.proof.balance, NoSig),
               NoProof, NoSig)

BeginIncrement ==
  /\ Idle
  /\ isChannelValid(channel)
  /\ \E s \in Slots, amount \in Balances :
       /\ calls[s].pc = "none"
       /\ \A t \in Slots : t < s => calls[t].pc # "none"
       /\ calls' = [calls EXCEPT ![s] =
                      Slot("suspended", amount, ReadAtBegin(channel), "", NoProof)]
  /\ UNCHANGED <<channel, store, chain, blockNumber, tokens, challenge, last,
                 waiter, period>>

ResumeIncrement ==
  /\ Idle
  /\ \E s \in Slots :
       /\ calls[s].pc = "suspended"
       /\ \E reply \in RaceReplies(
            getBalanceProofSignatureParams(channel,
              Proof(calls[s].began.proof.balance + calls[s].amount, NoSig))) :
            LET res == resumeIncrement(channel, store, chain, calls[s].began,
                                       calls[s].amount, reply.outcome, reply.answer)
            IN /\ channel' = res.channel
               /\ store' = res.store
               /\ last' = [Call("resumeIncrement", calls[s].began.proof,
                                calls[s].amount, NoSig, res)
                           EXCEPT !.reply = IF res.reqs > 0 THEN reply ELSE NoReply]
               /\ calls' = [calls EXCEPT ![s] =
                              IF res.ret = "ok"
                              THEN Slot("returned", calls[s].amount,
                                        calls[s].began, res.ret, res.out)
                              ELSE NoSlot]
  /\ UNCHANGED <<chain, blockNumber, tokens, challenge, waiter, period>>

ConfirmReturned ==
  /\ Idle
  /\ \E s \in Slots :
       /\ calls[s].pc = "returned"
       /\ calls[s].ret = "ok"
       /\ LET res == confirmPayment(channel, store, calls[s].out)
          IN /\ channel' = res.channel
             /\ store' = res.store
             /\ last' = Call("confirmReturned", calls[s].out, 0, NoSig, res)
       /\ calls' = [calls EXCEPT ![s] = NoSlot]
  /\ UNCHANGED <<chain, blockNumber, tokens, challenge, waiter, period>>

DropReturned ==
  /\ Idle
  /\ \E s \in Slots :
       /\ calls[s].pc = "returned"
       /\ calls' = [calls EXCEPT ![s] = NoSlot]
  /\ UNCHANGED <<channel, store, chain, blockNumber, tokens, challenge, last,
                 waiter, period>>

\* The channel is opened and funded before the calls that overlap
NoneInFlight == \A s \in Slots : calls[s].pc = "none"

OpenFirst == NoneInFlight /\ channel = InitialChannel /\ OpenChannel

TopUpFirst == NoneInFlight /\ TopUpChannel

NextRace ==
  \/ OpenFirst
  \/ TopUpFirst
  \/ BeginIncrement
  \/ ResumeIncrement
  \/ ConfirmReturned
  \/ DropReturned
  \/ SetBalance
  \/ VerifySent
  \/ Return

SpecRace == Init /\ [][NextRace]_vars

\* A suspended incrementBalanceAndSign resumed and handed back a proof; in
\* `last`, proof is the confirmed proof it read when it began, val its amount
Resumed == last.op = "resumeIncrement" /\ last.ret = "ok"

\* The caller confirms a returned proof that is not the pending one
ConfirmsOverwritten ==
  /\ last.op = "confirmReturned"
  /\ last.proof.sig # last.pre.next_proof.sig

\* C28: calls on one client are not serialized. An incrementBalanceAndSign
\* that resumes signs the balance it read when it began plus its amount and
\* stores it as next_proof over what an overlapping call stored, so
\* next_proof is confirmed + a or confirmed + b, never the sum; confirmPayment
\* of the overwritten proof fails with InvalidPendingProof; and the write is
\* that of the channel as the call read it when it began, so a setBalance or
\* verifyProof that ran in between is overwritten.
C28_LaterWriteOfStaleCopy ==
  /\ Resumed
       => /\ last.out.balance = last.proof.balance + last.val
          /\ channel.next_proof = last.out
          /\ channel.proof.balance = last.proof.balance
  /\ ConfirmsOverwritten
       => last.ret = "InvalidPendingProof" /\ Untouched

\* C28, amended: the same for the balance signed and for confirmPayment, but
\* the write is over the channel tracked when the call resumes: the proof a
\* setBalance or verifyProof confirmed in between stays, only next_proof,
\* which they cleared, is set again (and proof too when the balance signed
\* is the one confirmed by then).
C28_LaterWriteOfStaleProof ==
  /\ Resumed
       => /\ last.out = Proof(last.proof.balance + last.val,
                              SigOver(last.pre.account, last.pre.receiver,
                                      last.pre.block,
                                      last.proof.balance + last.val, ContractAddr))
          /\ channel = IF last.out.balance = last.pre.proof.balance
                       THEN [last.pre EXCEPT !.proof = last.out,
                                             !.next_proof = last.out]
                       ELSE [last.pre EXCEPT !.next_proof = last.out]
          /\ Persisted
  /\ ConfirmsOverwritten
       => last.ret = "InvalidPendingProof" /\ Untouched

\* two calls began at confirmed balance 0 with amounts 1 and 2: the pending
\* proof is the second's, 2 and not 3, and the first's is refused
C28_Witness ==
  /\ ConfirmsOverwritten
  /\ last.ret = "InvalidPendingProof"
  /\ last.pre.proof.balance = 0
  /\ last.proof.balance = 1
  /\ last.pre.next_proof.balance = 2
  /\ \E s \in Slots : calls[s].pc = "returned" /\ calls[s].out = last.pre.next_proof

\* The store on its own: channels are saved by setChannel and read back by
\* loadStoredChannel
NextStore ==
  \/ SetChannel
  \/ LoadStoredChannel
  \/ Return

SpecStore == Init /\ [][NextStore]_vars

\* C14: setChannel(c) followed by loadStoredChannel(c.account, c.receiver)
\* tracks a channel equal to c, the balances of proof and next_proof
\* included.
C14_StoreRoundTrip ==
  (/\ last.op = "loadStoredChannel"
   /\ StorageKey(last.pre.account, last.pre.receiver) \in StorageKeys
   /\ last.preStore[StorageKey(last.pre.account, last.pre.receiver)]
        = Stringify(last.pre))
  => /\ last.ret = "true"
     /\ channel = last.pre

\* waitTx on its own, against a chain that grows
NextWait ==
  \/ WaitTx
  \/ MineTx
  \/ MineBlock
  \/ PollReceipt
  \/ PollBlock
  \/ Wake
  \/ Complete

SpecWait == Init /\ [][NextWait]_vars

\* C15: waitTx(tx, n) does not return in a poll that found no receipt or
\* found currentBlock - receipt.blockNumber < n: it sleeps and polls again,
\* and does not throw; it returns the receipt in the first poll that finds
\* a receipt and currentBlock - receipt.blockNumber >= n.
C15_WaitTx ==
  /\ waiter.pc \in {"none", "polling", "receipt", "sleeping", "returned", "completed"}
  /\ waiter.pc = "returned"
       => /\ waiter.receipt # 0
          /\ waiter.block - waiter.receipt >= waiter.confirmations
          /\ waiter.result = waiter.receipt
          /\ waiter.result = waiter.txBlock
          /\ blockNumber - waiter.txBlock >= waiter.confirmations
  /\ waiter.pc = "sleeping"
       => \/ waiter.receipt = 0
          \/ waiter.block - waiter.receipt < waiter.confirmations

\* a poll found the receipt without the confirmations asked for, and a later
\* poll returned it
C15_Witness ==
  /\ waiter.pc = "returned"
  /\ waiter.confirmations = MaxConfirmations
  /\ waiter.polls > 2
  /\ waiter.block - waiter.result = waiter.confirmations

\* C16: whenever loadChannelFromBlockchain resolves, the channel it tracks
\* is open (getChannelInfo reports it opened at the time of the scan) with a
\* zero, unsigned proof; when the pair has no open channel it rejects.
C16_DiscoverTracksOpen ==
  last.op = "loadChannelFromBlockchain"
  => /\ last.ret = "ok"
          => /\ getChannelInfo(channel, chain).state = "opened"
             /\ channel.proof = Proof(0, NoSig)
     /\ (\A b \in Created : chain[b].closed # 0 \/ chain[b].settled # 0)
          => last.ret # "ok"

\* C17: settleChannel submits the settle transaction only if getChannelInfo
\* reports the tracked channel closed and the current block is at least the
\* close block plus the contract's challenge period; otherwise it fails and
\* submits no transaction (the chain and the block number stay as they were).
C17_SettleOnlyAfterChallenge ==
  last.op = "settleChannel"
  => LET info == getChannelInfo(last.pre, last.preChain)
     IN /\ last.ret = "ok"
             => /\ info.err = ""
                /\ info.state = "closed"
                /\ last.preBlock >= info.block + period
        /\ last.ret # "ok"
             => /\ last.ret \in {"InvalidChannel", "ChannelNotClosed",
                                 "SettleTooEarly"}
                /\ chain = last.preChain
                /\ blockNumber = last.preBlock

\* The state getChannelInfo reported for the tracked channel when the call began
PreInfo == getChannelInfo(last.pre, last.preChain)

NothingSent == chain = last.preChain /\ blockNumber = last.preBlock /\ last.tx = NoTx

\* C18: closeChannel of a channel that getChannelInfo reports closed or
\* settled fails as already closed; it submits no transaction, asks for no
\* signature and leaves the tracked channel and the store as they were, so a
\* counter-signature given in the call is not stored.
C18_CloseAlreadyClosed ==
  (/\ last.op = "closeChannel"
   /\ PreInfo.err = ""
   /\ PreInfo.state \in {"closed", "settled"})
  => /\ last.ret = "ChannelAlreadyClosed"
     /\ NothingSent
     /\ ~last.asked
     /\ Untouched

C18_Witness ==
  /\ last.op = "closeChannel"
  /\ PreInfo.err = ""
  /\ PreInfo.state = "closed"
  /\ last.sig # NoSig
  /\ last.pre.closing_sig = NoSig
  /\ last.pre.proof.sig = NoSig
  /\ last.ret = "ChannelAlreadyClosed"

\* closeChannel was called on a channel that getChannelInfo reports opened
CloseOfOpened ==
  last.op = "closeChannel" /\ PreInfo.err = "" /\ PreInfo.state = "opened"

\* A counter-signature is available: given in the call or stored before it
Cooperative == last.sig # NoSig \/ last.pre.closing_sig # NoSig

\* The transaction closeChannel sent: one, mined in the next block, calling
\* cooperativeClose exactly when a counter-signature is available; with a
\* counter-signature the proof sent is the confirmed balance under the
\* sender's signature, asked for first when the proof had none
OneCloseTx ==
  /\ blockNumber = last.preBlock + 1
  /\ last.tx.fn = IF Cooperative THEN "cooperativeClose" ELSE "uncooperativeClose"
  /\ last.tx.proof.balance = last.pre.proof.balance
  /\ Cooperative
       => /\ last.tx.closingSig = closingSigOf(last.pre, last.sig)
          /\ last.tx.proof.sig = SigOver(last.pre.account, last.pre.receiver,
                                         last.pre.block, last.tx.proof.balance,
                                         ContractAddr)
          /\ last.pre.proof.sig = NoSig => last.asked
  /\ ~Cooperative => ~last.asked

SigningErrors ==
  {"UserRejectedSigning", "SigningFailed", "InvalidSignature", "SignatureMismatch"}

\* C19: closeChannel of an opened channel submits exactly one close
\* transaction, cooperativeClose if and only if a counter-signature is
\* available (given or stored) and uncooperativeClose otherwise; in the
\* cooperative case an unsigned proof is signed first and the proof
\* signature submitted is the sender's over the submitted balance.
C19_CloseSubmitsOne ==
  CloseOfOpened => last.ret = "ok" /\ OneCloseTx

\* C19, amended: the same, unless the signature the cooperative case asks
\* for is not obtained; closeChannel then fails with the signing error and
\* submits no transaction. That happens only with a counter-signature
\* available and an unsigned proof.
C19_CloseSubmitsOneUnlessSigningFails ==
  CloseOfOpened
  => \/ last.ret = "ok" /\ OneCloseTx
     \/ /\ last.ret \in SigningErrors
        /\ Cooperative
        /\ last.pre.proof.sig = NoSig
        /\ last.asked
        /\ NothingSent

C19_Witness ==
  /\ CloseOfOpened
  /\ last.sig # NoSig
  /\ last.pre.closing_sig = NoSig
  /\ last.pre.proof.sig = NoSig
  /\ last.ret = "ok"
  /\ last.tx.fn = "cooperativeClose"
  /\ last.tx.proof.sig # NoSig
  /\ chain[last.pre.block].settled = blockNumber

\* C20: setBalance(value) is unconditional: whatever the tracked channel
\* holds and whatever the value, the value of the confirmed balance
\* included, afterwards proof is {balance: value} without a signature and
\* next_proof is absent.
C20_SetBalanceUnconditional ==
  (last.op = "setBalance" /\ last.ret = "ok")
  => /\ channel.proof = Proof(last.val, NoSig)
     /\ channel.next_proof = NoProof

\* C21: openChannel tracks and persists a channel only once the funding
\* transaction is mined with one confirmation and the deposit read back from
\* the contract is positive; the channel tracked is then exactly (account,
\* receiver, block of the receipt) with a zero unsigned proof, no pending
\* proof and no closing signature. With too few tokens no transaction is
\* sent; with too few tokens or no deposit found the tracked channel and the
\* store stay as they were.
C21_OpenChannel ==
  last.op = "openChannel"
  => /\ last.ret \in {"ok", "InsufficientTokenBalance", "DepositNotFound"}
     /\ last.ret = "ok"
          => /\ channel = MicroChannel(Sender, Receiver, last.preBlock + 1,
                                       Proof(0, NoSig), NoProof, NoSig)
             /\ chain[channel.block].created
             /\ ~last.preChain[channel.block].created
             /\ chain[channel.block].deposit = last.val
             /\ last.val > 0
             /\ blockNumber >= channel.block + 1
             /\ Persisted
     /\ last.ret = "InsufficientTokenBalance"
          => /\ chain = last.preChain
             /\ blockNumber = last.preBlock
             /\ Untouched
     /\ last.ret = "DepositNotFound"
          => /\ Untouched
             /\ blockNumber > last.preBlock
     /\ (channel # last.pre \/ store # last.preStore) => last.ret = "ok"

C21_Witness ==
  /\ last.op = "openChannel"
  /\ last.ret = "ok"
  /\ isChannelValid(last.pre)
  /\ channel.block # last.pre.block
  /\ last.pre.proof.balance > 0

\* The state getChannelInfo reports for the channel instance of the pair
\* opened in block b ("" while it reports none)
StateAt(chn, b) == getChannelInfo(Candidate(Sender, Receiver, b), chn).state

Rank(state) ==
  CASE state = "opened" -> 1
    [] state = "closed" -> 2
    [] state = "settled" -> 3
    [] OTHER -> 0

\* C22: for each channel instance the state getChannelInfo reports only
\* moves forward along opened -> closed -> settled; a close sent as
\* uncooperativeClose leaves it closed, never settled, and it goes from
\* opened to settled in one step only by a close sent as cooperativeClose.
C22_StateOnlyForward ==
  [][chain' # chain => \A b \in Blocks :
       /\ Rank(StateAt(chain', b)) >= Rank(StateAt(chain, b))
       /\ (StateAt(chain, b) = "opened" /\ StateAt(chain', b) = "settled")
            => last'.op = "closeChannel" /\ last'.tx.fn = "cooperativeClose"
       /\ (/\ last'.op = "closeChannel"
           /\ last'.tx.fn = "uncooperativeClose"
           /\ StateAt(chain', b) # StateAt(chain, b))
            => StateAt(chain, b) = "opened" /\ StateAt(chain', b) = "closed"
       /\ (StateAt(chain, b) = "closed" /\ StateAt(chain', b) = "settled")
            => last'.op = "settleChannel"]_vars

C22_Witness ==
  /\ last.op = "getChannelInfo"
  /\ last.info.state = "settled"
  /\ \E b \in Blocks :
       /\ ChannelAt(last.val).block = b
       /\ chain[b].closed # 0
       /\ chain[b].settled > chain[b].closed

\* The proof a signNewProof call works on: the given one, else the confirmed one
SignedProof == IF last.proof = NoProof THEN last.pre.proof ELSE last.proof

\* signNewProof obtained a signature for a proof that had none
SignedUnsigned ==
  /\ last.op = "signNewProof"
  /\ last.ret = "ok"
  /\ SignedProof.sig = NoSig

\* C23: when signNewProof succeeds on an unsigned proof of the confirmed
\* balance, the signed proof becomes channel.proof and next_proof is not
\* left set; with another balance the signed proof becomes next_proof and
\* channel.proof keeps its balance and signature.
C23_SignStoresProofOrPending ==
  SignedUnsigned
  => /\ last.out.sig # NoSig
     /\ last.out.balance = SignedProof.balance
     /\ IF SignedProof.balance = last.pre.proof.balance
        THEN channel.proof = last.out /\ channel.next_proof = NoProof
        ELSE channel.next_proof = last.out /\ channel.proof = last.pre.proof

\* C23, amended: with the confirmed balance the signed proof is stored as
\* channel.proof and as next_proof alike; with another balance it is stored
\* as next_proof only. Nothing else of the channel changes and the channel
\* is persisted.
C23_SignStoresProofAndPending ==
  SignedUnsigned
  => /\ last.out.sig = SigOver(last.pre.account, last.pre.receiver, last.pre.block,
                               SignedProof.balance, ContractAddr)
     /\ last.out.balance = SignedProof.balance
     /\ last.asked
     /\ IF SignedProof.balance = last.pre.proof.balance
        THEN channel = [last.pre EXCEPT !.proof = last.out, !.next_proof = last.out]
        ELSE channel = [last.pre EXCEPT !.next_proof = last.out]
     /\ Persisted

C23_Witness ==
  /\ SignedUnsigned
  /\ SignedProof.balance = last.pre.proof.balance
  /\ last.pre.next_proof # NoProof
  /\ last.pre.next_proof.balance > last.pre.proof.balance
  /\ channel.proof = last.out
  /\ channel.next_proof = last.out

\* The provider of a signNewProof call handed back a signature that recovers,
\* over the tuple of the proof to sign, to an address other than the account
RecoversToOther ==
  /\ last.op = "signNewProof"
  /\ last.reply.outcome \in Answering
  /\ last.reply.answer # NoSig
  /\ recoverTypedSignature(getBalanceProofSignatureParams(last.pre, SignedProof),
                           last.reply.answer) # last.pre.account

\* C24: when the signature handed back to signNewProof recovers to an
\* address other than the channel's account, signNewProof fails with the
\* mismatch error, hands back no signed proof, and channel.proof, next_proof
\* and the persisted record stay as they were.
C24_SignatureMismatch ==
  RecoversToOther
  => /\ last.ret = "SignatureMismatch"
     /\ last.out = NoProof
     /\ Untouched

C24_Witness ==
  /\ RecoversToOther
  /\ last.reply.answer.signer = Sender
  /\ last.reply.answer.balance # SignedProof.balance
  /\ last.ret = "SignatureMismatch"
  /\ last.pre.next_proof # NoProof

\* C25: incrementBalanceAndSign fetches the channel's state on every call;
\* when it is closed or settled the call fails with ChannelNotOpen, sends no
\* signing request and stores no pending proof (channel and store stay as
\* they were). So whenever incrementBalanceAndSign asks for a signature or
\* hands back a proof, the contract reports the channel opened.
C25_IncrementOnlyWhenOpened ==
  last.op = "incrementBalanceAndSign"
  => /\ (PreInfo.err = "" /\ PreInfo.state \in {"closed", "settled"})
          => /\ last.ret = "ChannelNotOpen"
             /\ ~last.asked
             /\ last.out = NoProof
             /\ Untouched
     /\ (last.asked \/ last.out # NoProof \/ channel # last.pre)
          => PreInfo.err = "" /\ PreInfo.state = "opened"

C25_Witness ==
  /\ last.op = "incrementBalanceAndSign"
  /\ PreInfo.state = "closed"
  /\ last.val > 0
  /\ last.pre.proof.balance + last.val <= PreInfo.deposit
  /\ last.ret = "ChannelNotOpen"

\* The poll loop is scheduled fairly: a pending request is answered, the
\* sleep ends.  Nothing makes the chain mine the transaction or grow.
SpecWaitFair ==
  /\ SpecWait
  /\ WF_vars(PollReceipt)
  /\ WF_vars(PollBlock)
  /\ WF_vars(Wake)

Waiting == waiter.pc \in {"polling", "receipt", "sleeping"}

\* C29: waitTx has no timeout. Once the transaction is mined and the chain
\* has reached receipt block + confirmations, a waitTx that polls fairly
\* returns the receipt; while the transaction is not mined waitTx has not
\* returned (and it never throws), and the operation awaiting it has not
\* completed.
C29_WaitTxResolves ==
  /\ [](waiter.txBlock = 0 => waiter.pc \notin {"returned", "completed"})
  /\ [](waiter.pc = "completed" => waiter.result = waiter.txBlock)
  /\ (/\ Waiting
      /\ waiter.txBlock # 0
      /\ blockNumber >= waiter.txBlock + waiter.confirmations)
       ~> (waiter.pc = "returned" /\ waiter.result = waiter.txBlock)

\* the chain stands at its last block, just far enough for the caller's
\* confirmations, and waitTx has returned after several polls
C29_Witness ==
  /\ waiter.pc = "completed"
  /\ waiter.confirmations > 0
  /\ waiter.polls > 1
  /\ blockNumber = MaxBlock
  /\ waiter.block = waiter.txBlock + waiter.confirmations

\* The operations that change the tracked channel through setChannel
StoringOps ==
  {"openChannel", "loadChannelFromBlockchain", "signNewProof",
   "incrementBalanceAndSign", "confirmPayment", "setBalance", "verifyProof",
   "closeChannel"}

\* C30: after every operation that changes the tracked channel (open,
\* discover, sign, confirmPayment, setBalance, verify, close keeping a
\* counter-signature) the record stored under the key of the pair is the
\* serialization of the channel tracked, and the store changes with the
\* channel only; after forgetStoredChannel no record is left under the key
\* of the channel that was tracked and no channel is tracked.
C30_StoreFollowsChannel ==
  /\ (last.op \in StoringOps /\ channel # last.pre) => Persisted
  /\ (last.op \in StoringOps /\ store # last.preStore)
       => channel # last.pre /\ Persisted
  /\ (/\ last.op \in StoringOps
      /\ channel.account = last.pre.account
      /\ channel.receiver = last.pre.receiver
      /\ StorageKey(last.pre.account, last.pre.receiver) \in StorageKeys
      /\ last.preStore[StorageKey(last.pre.account, last.pre.receiver)]
           = Stringify(last.pre))
       => Persisted
  /\ (last.op = "forgetStoredChannel" /\ last.pre # NoChannel)
       => /\ channel = NoChannel
          /\ \A k \in StorageKeys :
               store[k] = IF k = StorageKey(last.pre.account, last.pre.receiver)
                          THEN NoItem ELSE last.preStore[k]

\* close kept the counter-signature it was given, then the signing failed
C30_Witness ==
  /\ last.op = "closeChannel"
  /\ last.ret \in SigningErrors
  /\ last.pre.closing_sig = NoSig
  /\ channel.closing_sig = last.sig
  /\ channel # last.pre
  /\ Persisted

\* closeChannel sent a close transaction
CloseSent == last.op = "closeChannel" /\ last.tx # NoTx

\* closeChannel had the confirmed proof signed for a cooperative close
SignedForClose ==
  /\ CloseOfOpened
  /\ Cooperative
  /\ last.pre.proof.sig = NoSig
  /\ last.ret = "ok"

\* C31: the balance closeChannel submits, in a cooperative or an
\* uncooperative close, is the confirmed proof.balance at the time of the
\* call, never that of a signed pending proof with a higher balance; and
\* closeChannel leaves next_proof as it was.
C31_CloseSubmitsConfirmed ==
  last.op = "closeChannel"
  => /\ CloseSent => last.tx.proof.balance = last.pre.proof.balance
     /\ channel.next_proof = last.pre.next_proof

\* C31, amended: the same for the balance submitted; next_proof stays as it
\* was except when closeChannel has the unsigned confirmed proof signed for
\* a cooperative close: signNewProof then stores the signed confirmed proof
\* as proof and as next_proof, over the pending proof there was.
C31_CloseSubmitsConfirmedSignsOverPending ==
  last.op = "closeChannel"
  => /\ CloseSent => /\ last.tx.proof.balance = last.pre.proof.balance
                     /\ channel.proof.balance = last.pre.proof.balance
     /\ IF SignedForClose
        THEN /\ channel.next_proof = last.tx.proof
             /\ channel.proof = last.tx.proof
             /\ last.tx.proof.sig # NoSig
        ELSE channel.next_proof = last.pre.next_proof

\* a pending proof of a higher balance is there; the cooperative close
\* submits the confirmed balance and the pending proof is gone
C31_Witness ==
  /\ CloseSent
  /\ last.pre.next_proof.sig # NoSig
  /\ last.pre.next_proof.balance > last.pre.proof.balance
  /\ last.tx.fn = "cooperativeClose"
  /\ last.tx.proof.balance = last.pre.proof.balance
  /\ channel.next_proof = last.tx.proof

\* C32: every close transaction closeChannel submits, uncooperativeClose of
\* a channel whose proof was never signed (fresh from openChannel or the
\* scan, or reset by setBalance) included, carries a proof signature, and it
\* is the sender's over the balance submitted.
C32_CloseCarriesSignature ==
  CloseSent
  => /\ last.tx.proof.sig # NoSig
     /\ last.tx.proof.sig = SigOver(last.pre.account, last.pre.receiver,
                                    last.pre.block, last.tx.proof.balance,
                                    ContractAddr)

====
